---- MODULE Spec2Model ----
(***************************************************************************)
(* A model of scrape_hacktown.py: the retry loop of fetch_page, the        *)
(* per-date pagination coordinator fetch_all_pages_for_date, the           *)
(* orchestrator fetch_all_dates with its shared semaphore, and the result  *)
(* loop of main.                                                           *)
(*                                                                         *)
(* Seven specifications share the module:                                  *)
(*   Spec       one run of main: the orchestrator, one coordinator per     *)
(*              date, one task per page, all drawing on one semaphore.     *)
(*              A fetch_page call is started (slot held) and later returns *)
(*              None or a parsed body.                                     *)
(*   SpecFetch  one fetch_page call, attempt by attempt: jitter sleep,     *)
(*              request, response class, backoff sleep, return.            *)
(*   SpecMain   runs of main one after another, sharing summary.json: the  *)
(*              summary is loaded, the dates are fetched, the result loop  *)
(*              runs, the summary is built and written, the process ends.  *)
(*   SpecLocate calls of normalize_and_locate one after another, sharing   *)
(*              location_cache.                                            *)
(*   SpecSave   one run of main with the result loop taken date by date    *)
(*              and file by file, and a Ctrl+C that may come at any time.  *)
(*   SpecLive   the run of Spec under an event loop that goes on, with one *)
(*              body per case of a fetch result.                           *)
(*   SpecHold   the page fetches of a run with the steps of each           *)
(*              fetch_page call between taking the slot and returning.     *)
(* Times are in milliseconds.                                              *)
(***************************************************************************)
EXTENDS Integers, Sequences, FiniteSets, TLC

(***************************************************************************)
(* Bounds of the model.                                                    *)
(***************************************************************************)
\* number of dates handed to fetch_all_dates
NumDates == 2
\* largest meta.last_page the server reports for a date
MaxPages == 3
\* pages beyond page 1 the server reports, summed over the dates of a run
MaxExtraPages == 2
\* random.uniform(a, b) is sampled at JitterSteps + 1 evenly spaced points
JitterSteps == 2

\* record counts of a page body the server may send: none, or two records
RecordCounts == {0, 2}

VARIABLES
    IS_CI,             \* the environment flag read at import time
    \* ---- one run (Spec) ----
    runPc,             \* position of main / fetch_all_dates
    semaphore,         \* free slots of asyncio.Semaphore(MAX_CONCURRENT_REQUESTS)
    coord,             \* coord[d]: position of fetch_all_pages_for_date(d)
    task,              \* task[d][p]: "none" | "waiting" | "inflight" | "done"
    results,           \* results[d][p]: what fetch_page(d, p) returned
    last_page,         \* last_page[d]: the coordinator's local last_page
    all_events,        \* all_events[d]: the coordinator's local all_events
    all_results,       \* fetch_all_dates' mapping date -> events, once built
    doneOrder,         \* doneOrder[d]: pages >= 2 in the order their fetch returned
    calls,             \* calls[d][p]: number of fetch_page(d, p) calls started
    warmups,           \* number of warm-up requests made
    warmup,            \* how the warm-up request ended, "none" before it
    successful_dates,  \* main's counters after the result loop
    failed_dates,
    total_events,
    saved,             \* dates whose per-date file main wrote in this run
    \* ---- one fetch_page call (SpecFetch) ----
    fpPc,              \* "loop" | "jitter" | "request" | "backoff" | "done" | "raised"
    attempt,           \* the loop variable of "for attempt in range(MAX_RETRIES)"
    delay,             \* duration of the sleep in progress (or of the last one)
    requests,          \* number of session.get calls issued
    sleeps,            \* number of sleeps started after a failed attempt
    lastResp,          \* the response of the last attempt that ended
    last200,           \* the last attempt that received HTTP 200, as it ended
    onlyRetryable,     \* every attempt so far ended in a retryable failure
    fpResult,          \* what fetch_page returned
    \* ---- main across runs (SpecMain) ----
    summary_file,      \* content of events/summary.json: Missing or a dict
    existing_summary,  \* main's local existing_summary
    summary_data,      \* main's local summary_data
    exit_code,         \* exit status of the process, once it has ended
    runs,              \* number of runs started; the clock read by brt_now
    priorFile,         \* summary_file as it was when the current run began
    lastGood,          \* what the latest run with a successful date wrote
    \* ---- normalize_and_locate (SpecLocate) ----
    location_cache,    \* the module-level dict location_cache
    lastPlace,         \* the argument of the latest call
    lastResult,        \* what the latest call returned
    lastHit,           \* the latest call was answered from the cache
    locateCalls,       \* number of calls made
    \* ---- the result loop of main, file by file (SpecSave) ----
    event_files,       \* event_files[d]: content of hacktown_events_<d>.json
    priorFiles,        \* event_files as the run found them
    saveIdx,           \* the date the loop over all_events.items() is at
    \* ---- the ClientSession of fetch_all_dates and its connector ----
    session,           \* "none", "open" or "closed"
    raisedBy,          \* what raised out of the "async with" block, if anything
    \* ---- history of the runs that share summary.json ----
    failedRuns,        \* runs in which every page-1 fetch returned None, since
                       \* the latest run in which one did not
    \* ---- the fetch_page calls of a run, each with its own position ----
    pagePc,            \* pagePc[d][p]: where the call for page p of date d is
    pageAttempt        \* pageAttempt[d][p]: its loop variable "attempt"

runVars == <<runPc, semaphore, coord, task, results, last_page, all_events,
             all_results, doneOrder, calls, warmups, warmup, successful_dates,
             failed_dates, total_events, saved>>

fetchVars == <<fpPc, attempt, delay, requests, sleeps, lastResp, last200,
               onlyRetryable, fpResult>>

mainVars == <<summary_file, existing_summary, summary_data, exit_code, runs,
              priorFile, lastGood>>

locateVars == <<location_cache, lastPlace, lastResult, lastHit, locateCalls>>

saveVars == <<event_files, priorFiles, saveIdx>>

poolVars == <<session, raisedBy>>

holdVars == <<pagePc, pageAttempt>>

vars == <<IS_CI, runVars, fetchVars, mainVars, locateVars, saveVars, poolVars,
          failedRuns, holdVars>>

(***************************************************************************)
(* Environment profile (module level, lines 48-65).                        *)
(***************************************************************************)
MAX_CONCURRENT_REQUESTS == IF IS_CI THEN 1 ELSE 2
RETRY_DELAY == IF IS_CI THEN 20000 ELSE 5000
MAX_RETRIES == IF IS_CI THEN 3 ELSE 5
REQUEST_TIMEOUT == IF IS_CI THEN 60000 ELSE 30000

\* a connector set up the same way in both environments
LimitPerHostUnprofiled == IF IS_CI THEN 10 ELSE 10

\* lines 716-733: aiohttp.TCPConnector(limit=..., limit_per_host=...)
LIMIT_PER_HOST == IF IS_CI THEN 1 ELSE 10
CONNECTOR_LIMIT == IF IS_CI THEN 3 ELSE 20

\* the configuration the run works with
Profile ==
    [MAX_CONCURRENT_REQUESTS |-> MAX_CONCURRENT_REQUESTS,
     RETRY_DELAY |-> RETRY_DELAY,
     MAX_RETRIES |-> MAX_RETRIES,
     REQUEST_TIMEOUT |-> REQUEST_TIMEOUT,
     limit_per_host |-> LIMIT_PER_HOST]

EVENT_DATES == 1..NumDates
Pages == 1..MaxPages

(***************************************************************************)
(* Python values.  fetch_page returns None or the parsed JSON body, a      *)
(* dict.  A dict is a function from its keys; {} is the empty function.    *)
(***************************************************************************)
None == [tag |-> "None"]
Pending == [tag |-> "pending"]
Dict(items) == [tag |-> "dict", items |-> items]
EmptyDict == Dict([k \in {} |-> 0])

\* events/summary.json does not exist
Missing == [tag |-> "missing"]

\* a file that was opened for writing and not written to its end
Torn == [tag |-> "torn"]

\* brt_now.isoformat() of the n-th run, and the default "Never"
Time(n) == [tag |-> "time", at |-> n]
Never == [tag |-> "Never"]

\* bool(v) for v None or a dict: None and {} are falsy
Truthy(v) == v.tag = "dict" /\ DOMAIN v.items # {}

\* dict.get(key, default)
Get(v, key, default) == IF key \in DOMAIN v.items THEN v.items[key] ELSE default

\* the raw records the server holds for page p of date d, n of them
Records(d, p, n) == [i \in 1..n |-> <<d, p, i>>]

\* a body with a data array and a meta object carrying last_page
BodyWithMeta(d, p, n, lp) ==
    Dict([data |-> Records(d, p, n), meta |-> Dict([last_page |-> lp])])

\* a body with a data array and a meta object without last_page
BodyNoLastPage(d, p, n) ==
    Dict([data |-> Records(d, p, n), meta |-> EmptyDict])

\* what fetch_page(d, 1) may return
Page1Results(d) ==
    {None, EmptyDict}
    \cup {BodyNoLastPage(d, 1, n) : n \in RecordCounts}
    \cup {BodyWithMeta(d, 1, n, lp) : n \in RecordCounts, lp \in Pages}

\* what fetch_page(d, p) may return for p >= 2: None or a body with a data
\* array (its meta is never read; a body without records stands for every
\* body that contributes none)
PageResults(d, p) ==
    {None} \cup {BodyNoLastPage(d, p, n) : n \in RecordCounts}

(***************************************************************************)
(* The semaphore (asyncio.Semaphore): a counter of free slots.  acquire    *)
(* takes a slot when one is free and waits otherwise; release returns it.  *)
(***************************************************************************)
\* asyncio.Semaphore(MAX_CONCURRENT_REQUESTS), line 707
NewSemaphore == MAX_CONCURRENT_REQUESTS

\* a limiter that never makes a task wait
CanAcquireAlways(s) == TRUE

\* "async with semaphore" may enter
CanAcquire(s) == s > 0

\* a limiter whose slot comes back only when the fetch returned a body
ReleaseOnSuccess(s, r) == IF r = None THEN s ELSE s + 1

\* leaving "async with semaphore" (lines 471-473, 504-507) releases the slot,
\* whatever fetch_page returned
Release(s, r) == s + 1

\* the (date, page) pairs whose fetch_page call has started and not returned
InFlight == {dp \in EVENT_DATES \X Pages : task[dp[1]][dp[2]] = "inflight"}

\* pages beyond page 1 that the coordinators have scheduled so far
RECURSIVE ExtraPages(_)
ExtraPages(ds) ==
    IF ds = {} THEN 0
    ELSE LET d == CHOOSE x \in ds : TRUE
         IN  (IF last_page[d] > 1 THEN last_page[d] - 1 ELSE 0)
             + ExtraPages(ds \ {d})

(***************************************************************************)
(* fetch_all_pages_for_date (lines 441-534).                               *)
(***************************************************************************)
\* results handed back in the order the fetches returned
GatherOrderAsCompleted(d) == doneOrder[d]

\* the order in which asyncio.gather hands back the results of the tasks
\* for pages 2..last_page: the order of the tasks, that is, page order
GatherOrder(d) == [i \in 1..(last_page[d] - 1) |-> i + 1]

\* a merge that gives up at the first page that is missing
RECURSIVE MergePagesStopAtGap(_, _, _)
MergePagesStopAtGap(events, rs, order) ==
    IF order = <<>> \/ ~Truthy(rs[Head(order)]) THEN events
    ELSE MergePagesStopAtGap(events \o Get(rs[Head(order)], "data", <<>>),
                             rs, Tail(order))

\* lines 519-526: extend all_events with the data of every truthy result
RECURSIVE MergePages(_, _, _)
MergePages(events, rs, order) ==
    IF order = <<>> THEN events
    ELSE LET result == rs[Head(order)]
         IN  MergePages(IF Truthy(result)
                          THEN events \o Get(result, "data", <<>>)
                          ELSE events,
                        rs, Tail(order))

\* lines 476-478: "if not first_page_data" skips the date
FirstPageFailed(r) == ~Truthy(r)

\* a page count that is taken to be 2 when the meta object does not give it
LastPageDefaultTwo(r) == Get(Get(r, "meta", EmptyDict), "last_page", 2)

\* lines 489-490: meta.get('last_page', 1)
LastPageOf(r) == Get(Get(r, "meta", EmptyDict), "last_page", 1)

\* a coordinator that keeps page 1's slot while its page tasks run
KeepFirstPageSlot(s, r) == s

\* lines 471-478: the "async with semaphore" block around fetch_page(d, 1)
\* ends at line 473, before the result is looked at and before any task for
\* pages 2..last_page is made (lines 500-513)
LeaveFirstPageSlot(s, r) == Release(s, r)

\* lines 471-473: page 1 is fetched inside "async with semaphore"
AcquireFirstPage(d) ==
    /\ runPc = "gather"
    /\ coord[d] = "start"
    /\ CanAcquire(semaphore)
    /\ semaphore' = semaphore - 1
    /\ coord' = [coord EXCEPT ![d] = "page1"]
    /\ task' = [task EXCEPT ![d][1] = "inflight"]
    /\ calls' = [calls EXCEPT ![d][1] = @ + 1]
    /\ UNCHANGED <<IS_CI, holdVars, failedRuns, poolVars, locateVars, saveVars, fetchVars, mainVars, runPc, results, last_page,
                   all_events, all_results, doneOrder,
                   warmups, warmup, successful_dates, failed_dates, total_events, saved>>

\* lines 473-513: fetch_page(d, 1) returns r; the slot is released; a falsy
\* result ends the date with []; otherwise page 1's data is kept and one task
\* per page 2..last_page is handed to asyncio.gather
FirstPageReturn(d, r) ==
    /\ runPc = "gather"
    /\ coord[d] = "page1"
    /\ Truthy(r) /\ LastPageOf(r) > 1 =>
           ExtraPages(EVENT_DATES) + LastPageOf(r) - 1 <= MaxExtraPages
    /\ semaphore' = LeaveFirstPageSlot(semaphore, r)
    /\ results' = [results EXCEPT ![d][1] = r]
    /\ IF FirstPageFailed(r)
         THEN /\ coord' = [coord EXCEPT ![d] = "done"]
              /\ task' = [task EXCEPT ![d][1] = "done"]
              /\ all_events' = [all_events EXCEPT ![d] = <<>>]
              /\ UNCHANGED last_page
         ELSE /\ all_events' = [all_events EXCEPT ![d] = Get(r, "data", <<>>)]
              /\ last_page' = [last_page EXCEPT ![d] = LastPageOf(r)]
              /\ task' = [task EXCEPT ![d] =
                     [p \in Pages |->
                        IF p = 1 THEN "done"
                        ELSE IF p <= LastPageOf(r) THEN "waiting" ELSE "none"]]
              /\ coord' = [coord EXCEPT ![d] =
                     IF LastPageOf(r) > 1 THEN "gather" ELSE "done"]
    /\ pagePc' = [pagePc EXCEPT ![d][1] = "idle"]
    /\ pageAttempt' = [pageAttempt EXCEPT ![d][1] = 0]
    /\ UNCHANGED <<IS_CI, failedRuns, poolVars, locateVars, saveVars, fetchVars, mainVars, runPc, all_results, doneOrder,
                   calls, warmups, warmup, successful_dates,
                   failed_dates, total_events, saved>>

\* a closure that reads the loop's page variable when it runs: every task
\* sees the value the loop ended with
TaskPageLateBound(d, p) == last_page[d]

\* lines 504-509: the page number is the argument p of fetch_with_semaphore,
\* bound when the task is made; the p-th task fetches page p
TaskPage(d, p) == p

\* lines 504-507: fetch_with_semaphore(p) enters "async with semaphore"
AcquirePage(d, p) ==
    /\ runPc = "gather"
    /\ coord[d] = "gather"
    /\ task[d][p] = "waiting"
    /\ CanAcquire(semaphore)
    /\ semaphore' = semaphore - 1
    /\ task' = [task EXCEPT ![d][p] = "inflight"]
    /\ calls' = [calls EXCEPT ![d][TaskPage(d, p)] = @ + 1]
    /\ UNCHANGED <<IS_CI, holdVars, failedRuns, poolVars, locateVars, saveVars, fetchVars, mainVars, runPc, coord, results, last_page,
                   all_events, all_results,
                   doneOrder, warmups, warmup, successful_dates, failed_dates,
                   total_events, saved>>

\* lines 505-507: the fetch_page call of task p of date d returns r and the
\* slot is released
PageReturn(d, p, r) ==
    /\ runPc = "gather"
    /\ p >= 2
    /\ task[d][p] = "inflight"
    /\ semaphore' = Release(semaphore, r)
    /\ task' = [task EXCEPT ![d][p] = "done"]
    /\ results' = [results EXCEPT ![d][p] = r]
    /\ doneOrder' = [doneOrder EXCEPT ![d] = Append(@, p)]
    /\ pagePc' = [pagePc EXCEPT ![d][p] = "idle"]
    /\ pageAttempt' = [pageAttempt EXCEPT ![d][p] = 0]
    /\ UNCHANGED <<IS_CI, failedRuns, poolVars, locateVars, saveVars, fetchVars, mainVars, runPc, coord, last_page,
                   all_events, all_results, calls, warmups, warmup,
                   successful_dates, failed_dates, total_events, saved>>

\* lines 513-534: asyncio.gather is done; the results are merged and returned
Gathered(d) ==
    /\ runPc = "gather"
    /\ coord[d] = "gather"
    /\ \A p \in 2..last_page[d] : task[d][p] = "done"
    /\ all_events' = [all_events EXCEPT ![d] =
           MergePages(all_events[d], results[d], GatherOrder(d))]
    /\ coord' = [coord EXCEPT ![d] = "done"]
    /\ UNCHANGED <<IS_CI, holdVars, failedRuns, poolVars, locateVars, saveVars, fetchVars, mainVars, runPc, semaphore, task, results,
                   last_page, all_results, doneOrder, calls, warmups, warmup,
                   successful_dates, failed_dates, total_events,
                   saved>>

(***************************************************************************)
(* fetch_all_dates (lines 678-804) and warm_up_session (lines 652-675).    *)
(***************************************************************************)
\* how the request of warm_up_session may end: "ok" is status 200; "failed"
\* is another status or an exception (timeout, connection error), which both
\* end in a warning and nothing else
WarmUpOutcomes == {"ok", "failed"}

\* a warm-up whose failure is raised to fetch_all_dates
WarmUpMustSucceed(o) == o = "ok"

\* lines 663-675: after 200 a pause, after another status a warning, and
\* "except Exception" turns an exception into a warning: warm_up_session
\* returns in each case
WarmUpReturns(o) == TRUE

\* lines 762-763: one warm-up request, in CI only; its outcome is ignored
WarmUp(o) ==
    /\ runPc = "warmup"
    /\ warmups' = warmups + 1
    /\ warmup' = o
    /\ runPc' = IF WarmUpReturns(o) THEN "gather" ELSE "raised"
    /\ UNCHANGED <<IS_CI, holdVars, failedRuns, poolVars, locateVars, saveVars, fetchVars, mainVars, semaphore, coord, task, results,
                   last_page, all_events, all_results, doneOrder, calls,
                   successful_dates, failed_dates, total_events, saved>>

\* a gather that returns as soon as one date task has finished
AnyDateDone == \E d \in EVENT_DATES : coord[d] = "done"

\* line 786: "await asyncio.gather(*tasks)" returns when every date task has
AllDatesDone == \A d \in EVENT_DATES : coord[d] = "done"

\* lines 796-798: "for date, events in zip(dates, results)" fills all_results
ZipResults(dates, rs) == [d \in dates |-> rs[d]]

\* a session that is closed only when the block is left by its last line
CloseOnReturnOnly(path) == IF path = "returned" THEN "closed" ELSE "open"

\* lines 750-754, 800: "async with aiohttp.ClientSession(...) as session"
\* closes the session, and with it the connector, however the block is left
CloseOnExit(path) == "closed"

\* the exception leaves fetch_all_dates and main (no handler, lines 871,
\* 1005-1015); asyncio.run cancels the date tasks still pending, each leaves
\* its "async with semaphore", and the locals of the run are gone
Unwound ==
    /\ session' = CloseOnExit("raised")
    /\ runPc' = "aborted"
    /\ semaphore' = NewSemaphore
    /\ coord' = [d \in EVENT_DATES |-> "cancelled"]
    /\ task' = [d \in EVENT_DATES |-> [p \in Pages |-> "none"]]
    /\ results' = [d \in EVENT_DATES |-> [p \in Pages |-> Pending]]
    /\ last_page' = [d \in EVENT_DATES |-> 0]
    /\ all_events' = [d \in EVENT_DATES |-> <<>>]
    /\ doneOrder' = [d \in EVENT_DATES |-> <<>>]
    /\ calls' = [d \in EVENT_DATES |-> [p \in Pages |-> 0]]
    /\ UNCHANGED <<IS_CI, holdVars, failedRuns, fetchVars, mainVars, locateVars, saveVars,
                   all_results, successful_dates, failed_dates, total_events,
                   saved>>

\* lines 762-763, 657-674: warm_up_session catches Exception only; a
\* cancellation that arrives while it awaits is raised into the block
WarmUpRaises ==
    /\ runPc = "warmup"
    /\ warmups' = warmups + 1
    /\ warmup' = "raised"
    /\ raisedBy' = [kind |-> "warmup"]
    /\ Unwound

\* lines 786, 441-534: fetch_all_pages_for_date has no handler; what it
\* raises (a 200 body that is not a JSON object, a cancellation) comes out
\* of gather at once
DateTaskRaises(d) ==
    /\ runPc = "gather"
    /\ coord[d] # "done"
    /\ raisedBy' = [kind |-> "date", date |-> d]
    /\ Unwound
    /\ UNCHANGED <<warmups, warmup>>

\* lines 786-804: gather over the dates is done, the session is closed and
\* the mapping date -> events is returned
CloseSession ==
    /\ runPc = "gather"
    /\ AllDatesDone
    /\ all_results' = ZipResults(EVENT_DATES, all_events)
    /\ session' = CloseOnExit("returned")
    /\ runPc' = "closed"
    /\ UNCHANGED <<IS_CI, holdVars, failedRuns, raisedBy, locateVars, saveVars, fetchVars, mainVars, semaphore, coord, task, results, last_page,
                   all_events, doneOrder, calls, warmups, warmup, successful_dates,
                   failed_dates, total_events, saved>>

(***************************************************************************)
(* main (lines 880-895): the loop over the returned mapping.               *)
(***************************************************************************)
\* "if events is not None": a list, empty or not, passes
DateSucceededNotNone(events) == TRUE

\* line 886: "if events" holds for a non-empty list
DateSucceeded(events) == Len(events) > 0

RECURSIVE SumLen(_, _)
SumLen(ev, ds) ==
    IF ds = {} THEN 0
    ELSE LET d == CHOOSE x \in ds : TRUE
         IN  Len(ev[d]) + SumLen(ev, ds \ {d})

ProcessResults ==
    /\ runPc = "closed"
    /\ LET good == {d \in DOMAIN all_results : DateSucceeded(all_results[d])}
       IN  /\ saved' = good
           /\ successful_dates' = Cardinality(good)
           /\ total_events' = SumLen(all_results, good)
           /\ failed_dates' = DOMAIN all_results \ good
    /\ runPc' = "processed"
    /\ UNCHANGED <<IS_CI, holdVars, failedRuns, poolVars, locateVars, saveVars, fetchVars, mainVars, semaphore, coord, task, results, last_page,
                   all_events, all_results, doneOrder, calls, warmups, warmup>>

(***************************************************************************)
(* The run.                                                                *)
(***************************************************************************)
\* nothing has raised
NoRaise == [kind |-> "none"]

\* fetch_all_dates has not been entered: no session exists
PoolIdle ==
    /\ session = "none"
    /\ raisedBy = NoRaise

\* no per-date file exists and the result loop has not begun
SaveIdle ==
    /\ event_files = [d \in EVENT_DATES |-> Missing]
    /\ priorFiles = [d \in EVENT_DATES |-> Missing]
    /\ saveIdx = 1

\* line 154: location_cache = {}
LocateIdle ==
    /\ location_cache = <<>>
    /\ lastPlace = ""
    /\ lastResult = Pending
    /\ lastHit = FALSE
    /\ locateCalls = 0

\* main has not read or written the summary; no run has been counted and no
\* fetch_page call is under way
MainIdle ==
    /\ summary_file = Missing
    /\ existing_summary = EmptyDict
    /\ summary_data = Pending
    /\ exit_code = Pending
    /\ runs = 1
    /\ priorFile = Missing
    /\ lastGood = Pending
    /\ failedRuns = 0
    /\ pagePc = [d \in EVENT_DATES |-> [p \in Pages |-> "idle"]]
    /\ pageAttempt = [d \in EVENT_DATES |-> [p \in Pages |-> 0]]

Init ==
    /\ IS_CI \in BOOLEAN
    /\ runPc = IF IS_CI THEN "warmup" ELSE "gather"
    /\ semaphore = NewSemaphore
    /\ coord = [d \in EVENT_DATES |-> "start"]
    /\ task = [d \in EVENT_DATES |-> [p \in Pages |-> "none"]]
    /\ results = [d \in EVENT_DATES |-> [p \in Pages |-> Pending]]
    /\ last_page = [d \in EVENT_DATES |-> 0]
    /\ all_events = [d \in EVENT_DATES |-> <<>>]
    /\ all_results = <<>>
    /\ doneOrder = [d \in EVENT_DATES |-> <<>>]
    /\ calls = [d \in EVENT_DATES |-> [p \in Pages |-> 0]]
    /\ warmups = 0
    /\ warmup = "none"
    /\ successful_dates = 0
    /\ failed_dates = {}
    /\ total_events = 0
    /\ saved = {}
    /\ fpPc = "idle"
    /\ attempt = 0
    /\ delay = 0
    /\ requests = 0
    /\ sleeps = 0
    /\ lastResp = [kind |-> "none"]
    /\ last200 = [kind |-> "none"]
    /\ onlyRetryable = TRUE
    /\ fpResult = Pending
    /\ MainIdle
    /\ LocateIdle
    /\ SaveIdle
    /\ session = "open"
    /\ raisedBy = NoRaise

Next ==
    \/ \E o \in WarmUpOutcomes : WarmUp(o)
    \/ \E d \in EVENT_DATES : AcquireFirstPage(d)
    \/ \E d \in EVENT_DATES : \E r \in Page1Results(d) : FirstPageReturn(d, r)
    \/ \E d \in EVENT_DATES : \E p \in Pages : AcquirePage(d, p)
    \/ \E d \in EVENT_DATES : \E p \in Pages :
           \E r \in PageResults(d, TaskPage(d, p)) : PageReturn(d, p, r)
    \/ \E d \in EVENT_DATES : Gathered(d)
    \/ CloseSession
    \/ WarmUpRaises
    \/ \E d \in EVENT_DATES : DateTaskRaises(d)
    \/ ProcessResults

Spec == Init /\ [][Next]_vars

\* The progress of the run depends on what a fetch returns only through its
\* being falsy or not and, for page 1, through last_page: one body per case
\* is enough to follow it.
LivePage1Results(d) ==
    {None} \cup {BodyWithMeta(d, 1, 2, lp) : lp \in Pages}

LivePageResults(d, p) == {None, BodyNoLastPage(d, p, 2)}

NextLive ==
    \/ \E o \in WarmUpOutcomes : WarmUp(o)
    \/ \E d \in EVENT_DATES : AcquireFirstPage(d)
    \/ \E d \in EVENT_DATES : \E r \in LivePage1Results(d) : FirstPageReturn(d, r)
    \/ \E d \in EVENT_DATES : \E p \in Pages : AcquirePage(d, p)
    \/ \E d \in EVENT_DATES : \E p \in Pages :
           \E r \in LivePageResults(d, TaskPage(d, p)) : PageReturn(d, p, r)
    \/ \E d \in EVENT_DATES : Gathered(d)
    \/ CloseSession
    \/ WarmUpRaises
    \/ \E d \in EVENT_DATES : DateTaskRaises(d)
    \/ ProcessResults

\* the steps of the run other than a task or the warm-up raising
Progress ==
    \/ \E o \in WarmUpOutcomes : WarmUp(o)
    \/ \E d \in EVENT_DATES : AcquireFirstPage(d)
    \/ \E d \in EVENT_DATES : \E r \in LivePage1Results(d) : FirstPageReturn(d, r)
    \/ \E d \in EVENT_DATES : \E p \in Pages : AcquirePage(d, p)
    \/ \E d \in EVENT_DATES : \E p \in Pages :
           \E r \in LivePageResults(d, TaskPage(d, p)) : PageReturn(d, p, r)
    \/ \E d \in EVENT_DATES : Gathered(d)
    \/ CloseSession
    \/ ProcessResults

\* The run under an event loop that goes on: every fetch_page call returns
\* (bounded retries), a free slot is given to a task that waits for one
\* (asyncio.Semaphore wakes its waiters in the order they came) and what is
\* ready is run.  No step of the run can be undone, so it is enough to ask
\* that the run does not stand still while one of its steps is possible;
\* nothing obliges a task or the warm-up to raise.
SpecLive == Init /\ [][NextLive]_vars /\ WF_vars(Progress)

(***************************************************************************)
(* fetch_page (lines 324-438), one call.                                   *)
(***************************************************************************)
Min(a, b) == IF a < b THEN a ELSE b
Max(a, b) == IF a > b THEN a ELSE b

RECURSIVE Pow2(_)
Pow2(n) == IF n = 0 THEN 1 ELSE 2 * Pow2(n - 1)

\* random.uniform(lo, hi), sampled: both ends and the points between
Uniform(lo, hi) == {lo + ((hi - lo) * k) \div JitterSteps : k \in 0..JitterSteps}

\* HTTP statuses the server may answer with
Statuses == {200, 403, 404, 500}

\* the parsed bodies a 200 response may carry
JsonBodies == {EmptyDict, BodyWithMeta(1, 1, 2, 2)}

\* how an attempt's request may end: a status line (for 200, followed by
\* response.json() parsing the body, raising on a malformed body, or timing
\* out while reading it), a timeout, or any other exception of session.get
Responses ==
    {[kind |-> "status", status |-> 200, body |-> "json", json |-> b] :
        b \in JsonBodies}
    \cup {[kind |-> "status", status |-> 200, body |-> b] :
        b \in {"malformed", "timeout"}}
    \cup {[kind |-> "status", status |-> st] : st \in Statuses \ {200}}
    \cup {[kind |-> "timeout"], [kind |-> "error"]}

\* the exception an attempt raises inside the try block, if any
Raised(resp) ==
    CASE resp.kind = "timeout" -> "TimeoutError"
      [] resp.kind = "error" -> "Exception"
      [] resp.kind = "status" /\ resp.status = 200 /\ resp.body = "malformed"
            -> "Exception"
      [] resp.kind = "status" /\ resp.status = 200 /\ resp.body = "timeout"
            -> "TimeoutError"
      [] OTHER -> "none"

\* a try block with the "except asyncio.TimeoutError" clause only
HandlerTimeoutOnly(exc) ==
    IF exc = "TimeoutError" THEN "except_timeout" ELSE "propagate"

\* lines 418 and 427: the except clauses of the try block
Handler(exc) ==
    CASE exc = "TimeoutError" -> "except_timeout"
      [] exc = "Exception" -> "except_exception"
      [] OTHER -> "propagate"

\* a retry test that gives up one attempt early
AttemptsRemainShort(a) == a < MAX_RETRIES - 2

\* "attempt < MAX_RETRIES - 1" (lines 392, 413, 421, 430)
AttemptsRemain(a) == a < MAX_RETRIES - 1

\* a 4xx retried in either profile
ClientErrorRetriedAnywhere(st, a) ==
    400 <= st /\ st < 500 /\ AttemptsRemain(a)

\* line 413: "IS_CI and 400 <= response.status < 500 and attempt < MAX_RETRIES - 1"
ClientErrorRetried(st, a) ==
    IS_CI /\ 400 <= st /\ st < 500 /\ AttemptsRemain(a)

\* a 200 that is answered like a failed attempt
OnStatus200Retry == "retry_flat"

\* lines 387-389: on status 200 the parsed JSON is returned
OnStatus200 == "return_json"

\* lines 386-434: what fetch_page does with the response of attempt a
Outcome(resp, a) ==
    IF Raised(resp) # "none"
      THEN IF Handler(Raised(resp)) = "propagate" THEN "propagate"
           ELSE IF AttemptsRemain(a) THEN "retry_flat" ELSE "return_none"
    ELSE IF resp.status = 200 THEN OnStatus200
    ELSE IF resp.status = 403 /\ AttemptsRemain(a) THEN "backoff_403"
    ELSE IF ClientErrorRetried(resp.status, a) THEN "wait_4xx"
    ELSE "return_none"

\* a jitter that is the same on the first attempt and on a retry
JitterDelaysFlat(a) ==
    IF IS_CI THEN Uniform(5000, 12000) ELSE Uniform(500, 1500)

\* lines 366-373: the sleep before the request of attempt a
JitterDelays(a) ==
    IF IS_CI
      THEN IF a > 0
             THEN {b + e : b \in Uniform(5000, 12000), e \in Uniform(10000, 20000)}
             ELSE Uniform(5000, 12000)
      ELSE Uniform(500, 1500)

\* the 403 backoff without its clamps
Backoff403Unclamped(a, j) ==
    IF IS_CI
      THEN 30000 + (a * 30000) + j
      ELSE RETRY_DELAY * Pow2(a) + j

\* the 403 backoff computed from the attempt number counted from 1
Backoff403OneBased(a, j) ==
    IF IS_CI
      THEN Min(30000 + ((a + 1) * 30000) + j, 120000)
      ELSE Max(5000, Min(RETRY_DELAY * Pow2(a + 1) + j, 30000))

\* lines 396-403: the delay slept after a 403 on attempt a, with jitter j
Backoff403(a, j) ==
    IF IS_CI
      THEN Min(30000 + (a * 30000) + j, 120000)
      ELSE Max(5000, Min(RETRY_DELAY * Pow2(a) + j, 30000))

\* the jitter added to the 403 backoff: random.uniform(0, 30) or (0, 5)
Backoff403Jitter == IF IS_CI THEN Uniform(0, 30000) ELSE Uniform(0, 5000)

\* the flat delay without its CI factor
FlatDelayUnscaled == RETRY_DELAY

\* lines 422 and 431: RETRY_DELAY * (2 if IS_CI else 1)
FlatDelay == RETRY_DELAY * (IF IS_CI THEN 2 ELSE 1)

\* the delays fetch_page may sleep for outcome o of attempt a
BackoffDelays(o, a) ==
    CASE o = "backoff_403" -> {Backoff403(a, j) : j \in Backoff403Jitter}
      [] o = "wait_4xx" -> Uniform(15000, 30000)
      [] o = "retry_flat" -> {FlatDelay}

\* a response that fetch_page answers with a sleep and another attempt
\* whenever attempts remain
Retryable(resp) ==
    \/ Raised(resp) # "none"
    \/ resp.kind = "status" /\ resp.status = 403
    \/ resp.kind = "status" /\ IS_CI /\ 400 <= resp.status /\ resp.status < 500

\* lines 362-373: an iteration begins with the jitter sleep
BeginAttempt(j) ==
    /\ fpPc = "loop"
    /\ j \in JitterDelays(attempt)
    /\ fpPc' = "jitter"
    /\ delay' = j
    /\ UNCHANGED <<IS_CI, holdVars, failedRuns, poolVars, locateVars, saveVars, runVars, mainVars, attempt, requests, sleeps, lastResp,
                   last200, onlyRetryable, fpResult>>

\* lines 376-384: the sleep is over; headers are drawn and the request issued
IssueRequest ==
    /\ fpPc = "jitter"
    /\ fpPc' = "request"
    /\ requests' = requests + 1
    /\ UNCHANGED <<IS_CI, holdVars, failedRuns, poolVars, locateVars, saveVars, runVars, mainVars, attempt, delay, sleeps, lastResp, last200,
                   onlyRetryable, fpResult>>

\* lines 386-434: the request ends with resp; fetch_page returns, or starts
\* the sleep of dl milliseconds that precedes the next attempt
Respond(resp, dl) ==
    /\ fpPc = "request"
    /\ lastResp' = resp
    /\ onlyRetryable' = (onlyRetryable /\ Retryable(resp))
    /\ last200' = IF resp.kind = "status" /\ resp.status = 200
                    THEN [kind |-> "seen", resp |-> resp,
                          requests |-> requests, sleeps |-> sleeps]
                    ELSE last200
    /\ LET o == Outcome(resp, attempt)
       IN  CASE o = "return_json" ->
                  /\ dl = 0
                  /\ fpPc' = "done"
                  /\ fpResult' = resp.json
                  /\ UNCHANGED <<delay, sleeps>>
             [] o = "return_none" ->
                  /\ dl = 0
                  /\ fpPc' = "done"
                  /\ fpResult' = None
                  /\ UNCHANGED <<delay, sleeps>>
             [] o = "propagate" ->
                  /\ dl = 0
                  /\ fpPc' = "raised"
                  /\ UNCHANGED <<delay, sleeps, fpResult>>
             [] OTHER ->
                  /\ dl \in BackoffDelays(o, attempt)
                  /\ fpPc' = "backoff"
                  /\ delay' = dl
                  /\ sleeps' = sleeps + 1
                  /\ UNCHANGED fpResult
    /\ UNCHANGED <<IS_CI, holdVars, failedRuns, poolVars, locateVars, saveVars, runVars, mainVars, attempt, requests>>

\* "continue": the sleep is over and the loop takes its next value; a loop
\* that is exhausted returns None (lines 436-438)
WakeUp ==
    /\ fpPc = "backoff"
    /\ IF attempt + 1 < MAX_RETRIES
         THEN /\ attempt' = attempt + 1
              /\ fpPc' = "loop"
              /\ UNCHANGED fpResult
         ELSE /\ fpPc' = "done"
              /\ fpResult' = None
              /\ UNCHANGED attempt
    /\ UNCHANGED <<IS_CI, holdVars, failedRuns, poolVars, locateVars, saveVars, runVars, mainVars, delay, requests, sleeps, lastResp, last200,
                   onlyRetryable>>

\* every delay a sleep of fetch_page may last, and 0 for "no sleep"
AllDelays ==
    {0} \cup Uniform(15000, 30000) \cup {FlatDelay}
    \cup {Backoff403(a, j) : a \in 0..(MAX_RETRIES - 1), j \in Backoff403Jitter}

InitFetch ==
    /\ IS_CI \in BOOLEAN
    /\ runPc = "idle"
    /\ semaphore = 0
    /\ coord = [d \in EVENT_DATES |-> "start"]
    /\ task = [d \in EVENT_DATES |-> [p \in Pages |-> "none"]]
    /\ results = [d \in EVENT_DATES |-> [p \in Pages |-> Pending]]
    /\ last_page = [d \in EVENT_DATES |-> 0]
    /\ all_events = [d \in EVENT_DATES |-> <<>>]
    /\ all_results = <<>>
    /\ doneOrder = [d \in EVENT_DATES |-> <<>>]
    /\ calls = [d \in EVENT_DATES |-> [p \in Pages |-> 0]]
    /\ warmups = 0
    /\ warmup = "none"
    /\ successful_dates = 0
    /\ failed_dates = {}
    /\ total_events = 0
    /\ saved = {}
    /\ fpPc = "loop"
    /\ attempt = 0
    /\ delay = 0
    /\ requests = 0
    /\ sleeps = 0
    /\ lastResp = [kind |-> "none"]
    /\ last200 = [kind |-> "none"]
    /\ onlyRetryable = TRUE
    /\ fpResult = Pending
    /\ MainIdle
    /\ LocateIdle
    /\ SaveIdle
    /\ PoolIdle

NextFetch ==
    \/ \E j \in JitterDelays(attempt) : BeginAttempt(j)
    \/ IssueRequest
    \/ \E resp \in Responses : \E dl \in AllDelays : Respond(resp, dl)
    \/ WakeUp

\* every sleep ends and every request ends (it carries REQUEST_TIMEOUT), so a
\* call that can take a step takes one
SpecFetch == InitFetch /\ [][NextFetch]_vars /\ WF_vars(NextFetch)

(***************************************************************************)
(* main across runs (lines 843-977) and the script entry (lines 1005-1017).*)
(* Runs follow one another and share events/summary.json.  A run is cut    *)
(* down to what main sees of it: fetch_all_dates returns the mapping that  *)
(* Spec leaves for dates of one page each.  The file system is taken to    *)
(* work: summary.json, when it exists, holds what the last run dumped.     *)
(* Elapsed time, throughput and cache size are left out of the summary.    *)
(***************************************************************************)
\* number of runs in a row
MaxRuns == 3

\* what fetch_page(d, 1) returns for a date that has one page
OnePageResults(d) ==
    {None} \cup {BodyNoLastPage(d, 1, n) : n \in RecordCounts}

\* lines 846-862: existing_summary is {} unless summary.json exists
LoadSummary ==
    /\ runPc = "start"
    /\ existing_summary' =
          IF summary_file = Missing THEN EmptyDict ELSE summary_file
    /\ priorFile' = summary_file
    /\ runPc' = "fetching"
    /\ UNCHANGED <<IS_CI, holdVars, failedRuns, poolVars, locateVars, saveVars, fetchVars, semaphore, coord, task, results, last_page,
                   all_events, all_results, doneOrder, calls, warmups, warmup, successful_dates,
                   failed_dates, total_events, saved, summary_file,
                   summary_data, exit_code, runs, lastGood>>

\* line 871: fetch_all_dates(EVENT_DATES) returns; rs[d] is what
\* fetch_page(d, 1) returned (lines 471-490)
FetchAllDates(rs) ==
    /\ runPc = "fetching"
    /\ results' = [d \in EVENT_DATES |->
                      [p \in Pages |-> IF p = 1 THEN rs[d] ELSE Pending]]
    /\ all_events' = [d \in EVENT_DATES |->
                         IF FirstPageFailed(rs[d]) THEN <<>>
                         ELSE Get(rs[d], "data", <<>>)]
    /\ all_results' = ZipResults(EVENT_DATES, all_events')
    /\ session' = CloseOnExit("returned")
    /\ runPc' = "closed"
    /\ UNCHANGED <<IS_CI, holdVars, failedRuns, raisedBy, locateVars, saveVars, fetchVars, mainVars, semaphore, coord, task,
                   last_page, doneOrder, calls, warmups, warmup, successful_dates,
                   failed_dates, total_events, saved>>

\* line 925
FetchSuccessful == successful_dates > 0

\* line 935: one file name per date that is not in failed_dates, in the order
\* of EVENT_DATES
FileName(d) == <<"hacktown_events", d>>
FilesCreated(failed) ==
    SelectSeq([d \in 1..NumDates |-> FileName(d)],
              LAMBDA f : f[2] \notin failed)

\* a success summary that adds this run's events to the earlier total
SuccessSummaryAccumulated(existing, now) ==
    Dict([scraping_completed |-> Time(now),
          total_events |-> Get(existing, "total_events", 0) + total_events,
          successful_dates |-> successful_dates,
          failed_dates |-> failed_dates,
          dates_processed |-> EVENT_DATES,
          files_created |-> FilesCreated(failed_dates)])

\* lines 929-939
SuccessSummary(existing, now) ==
    Dict([scraping_completed |-> Time(now),
          total_events |-> total_events,
          successful_dates |-> successful_dates,
          failed_dates |-> failed_dates,
          dates_processed |-> EVENT_DATES,
          files_created |-> FilesCreated(failed_dates)])

\* a failure counter that starts again at 1 with every failed run
ConsecutiveFailuresReset(existing) == 1

\* line 953
ConsecutiveFailures(existing) == Get(existing, "consecutive_failures", 0) + 1

\* a failure summary that reports this run's own (empty) totals
FailureSummaryFresh(existing, now) ==
    Dict([scraping_completed |-> Never,
          total_events |-> total_events,
          successful_dates |-> successful_dates,
          failed_dates |-> failed_dates,
          dates_processed |-> EVENT_DATES,
          files_created |-> <<>>,
          last_failed_attempt |-> Time(now),
          consecutive_failures |-> ConsecutiveFailures(existing)])

\* lines 944-954
FailureSummary(existing, now) ==
    Dict([scraping_completed |-> Get(existing, "scraping_completed", Never),
          total_events |-> Get(existing, "total_events", 0),
          successful_dates |-> Get(existing, "successful_dates", 0),
          failed_dates |-> failed_dates,
          dates_processed |-> EVENT_DATES,
          files_created |-> Get(existing, "files_created", <<>>),
          last_failed_attempt |-> Time(now),
          consecutive_failures |-> ConsecutiveFailures(existing)])

\* lines 921-955: the timestamp is read and summary_data is built
BuildSummary ==
    /\ runPc = "processed"
    /\ summary_data' = IF FetchSuccessful
                         THEN SuccessSummary(existing_summary, runs)
                         ELSE FailureSummary(existing_summary, runs)
    /\ runPc' = "built"
    /\ UNCHANGED <<IS_CI, holdVars, failedRuns, poolVars, locateVars, saveVars, fetchVars, semaphore, coord, task, results, last_page,
                   all_events, all_results, doneOrder, calls, warmups, warmup, successful_dates,
                   failed_dates, total_events, saved, summary_file,
                   existing_summary, exit_code, runs, priorFile, lastGood>>

\* the three fields of a summary that tell of the last good run
GoodFields(s) ==
    [scraping_completed |-> Get(s, "scraping_completed", Never),
     total_events |-> Get(s, "total_events", 0),
     successful_dates |-> Get(s, "successful_dates", 0)]

\* lines 958-961: summary_data is dumped to summary.json
WriteSummary ==
    /\ runPc = "built"
    /\ summary_file' = summary_data
    /\ lastGood' = IF \E d \in EVENT_DATES : results[d][1].tag = "dict"
                     THEN GoodFields(summary_data)
                     ELSE lastGood
    /\ failedRuns' = IF \E d \in EVENT_DATES : results[d][1].tag = "dict"
                       THEN 0
                       ELSE failedRuns + 1
    /\ runPc' = "written"
    /\ UNCHANGED <<IS_CI, holdVars, poolVars, locateVars, saveVars, fetchVars, semaphore, coord, task, results, last_page,
                   all_events, all_results, doneOrder, calls, warmups, warmup, successful_dates,
                   failed_dates, total_events, saved, existing_summary,
                   summary_data, exit_code, runs, priorFile>>

\* lines 1005-1007: main returns in both cases, asyncio.run returns and the
\* script reaches its end
ExitStatus(fetch_successful) == 0

\* lines 968-977, 1005-1007: the status is logged and the process ends
Finish ==
    /\ runPc = "written"
    /\ exit_code' = ExitStatus(FetchSuccessful)
    /\ runPc' = "exited"
    /\ UNCHANGED <<IS_CI, holdVars, failedRuns, poolVars, locateVars, saveVars, fetchVars, semaphore, coord, task, results, last_page,
                   all_events, all_results, doneOrder, calls, warmups, warmup, successful_dates,
                   failed_dates, total_events, saved, summary_file,
                   existing_summary, summary_data, runs, priorFile, lastGood>>

\* the script is started again: a new process, the same summary.json
NextRun ==
    /\ runPc = "exited"
    /\ runs < MaxRuns
    /\ runs' = runs + 1
    /\ runPc' = "start"
    /\ results' = [d \in EVENT_DATES |-> [p \in Pages |-> Pending]]
    /\ all_events' = [d \in EVENT_DATES |-> <<>>]
    /\ all_results' = <<>>
    /\ successful_dates' = 0
    /\ failed_dates' = {}
    /\ total_events' = 0
    /\ saved' = {}
    /\ existing_summary' = EmptyDict
    /\ summary_data' = Pending
    /\ exit_code' = Pending
    /\ session' = "none"
    /\ UNCHANGED <<IS_CI, holdVars, failedRuns, raisedBy, locateVars, saveVars, fetchVars, semaphore, coord, task, last_page,
                   doneOrder, calls, warmups, warmup, summary_file, priorFile,
                   lastGood>>

InitMain ==
    /\ IS_CI \in BOOLEAN
    /\ runPc = "start"
    /\ semaphore = NewSemaphore
    /\ coord = [d \in EVENT_DATES |-> "start"]
    /\ task = [d \in EVENT_DATES |-> [p \in Pages |-> "none"]]
    /\ results = [d \in EVENT_DATES |-> [p \in Pages |-> Pending]]
    /\ last_page = [d \in EVENT_DATES |-> 0]
    /\ all_events = [d \in EVENT_DATES |-> <<>>]
    /\ all_results = <<>>
    /\ doneOrder = [d \in EVENT_DATES |-> <<>>]
    /\ calls = [d \in EVENT_DATES |-> [p \in Pages |-> 0]]
    /\ warmups = 0
    /\ warmup = "none"
    /\ successful_dates = 0
    /\ failed_dates = {}
    /\ total_events = 0
    /\ saved = {}
    /\ fpPc = "idle"
    /\ attempt = 0
    /\ delay = 0
    /\ requests = 0
    /\ sleeps = 0
    /\ lastResp = [kind |-> "none"]
    /\ last200 = [kind |-> "none"]
    /\ onlyRetryable = TRUE
    /\ fpResult = Pending
    /\ MainIdle
    /\ LocateIdle
    /\ SaveIdle
    /\ PoolIdle

NextMain ==
    \/ LoadSummary
    \/ \E rs \in [EVENT_DATES -> UNION {OnePageResults(d) : d \in EVENT_DATES}] :
           (\A d \in EVENT_DATES : rs[d] \in OnePageResults(d)) /\ FetchAllDates(rs)
    \/ ProcessResults
    \/ BuildSummary
    \/ WriteSummary
    \/ Finish
    \/ NextRun

SpecMain == InitMain /\ [][NextMain]_vars

(***************************************************************************)
(* normalize_and_locate (lines 154-321).  A place is a string; Len, SubSeq  *)
(* and \o work on it character by character.  The function returns a pair  *)
(* of Python values: Str(s) for a string, None for None.                   *)
(***************************************************************************)
\* number of calls of normalize_and_locate in a row
MaxLocateCalls == 3

Str(s) == [tag |-> "str", s |-> s]

\* the letters that have two cases, in the order of their pairs
LowerLetters == "abcdefghijklmnopqrstuvwxyzáãçéêíóô"
UpperLetters == "ABCDEFGHIJKLMNOPQRSTUVWXYZÁÃÇÉÊÍÓÔ"

\* c turned into the other alphabet when it is a letter of the first
MapChar(c, from, to) ==
    IF \E i \in 1..Len(from) : SubSeq(from, i, i) = c
      THEN LET i == CHOOSE j \in 1..Len(from) : SubSeq(from, j, j) = c
           IN  SubSeq(to, i, i)
      ELSE c

RECURSIVE MapString(_, _, _)
MapString(s, from, to) ==
    IF s = "" THEN ""
    ELSE MapChar(SubSeq(s, 1, 1), from, to)
            \o MapString(SubSeq(s, 2, Len(s)), from, to)

\* str.upper() and str.lower()
Upper(s) == MapString(s, LowerLetters, UpperLetters)
Lower(s) == MapString(s, UpperLetters, LowerLetters)

\* "k in s" for strings
Contains(s, k) ==
    \E i \in 1..(Len(s) - Len(k) + 1) : SubSeq(s, i, i + Len(k) - 1) = k

\* lines 201-310: the if/elif chain, one entry per branch in its order; keys
\* are the substrings joined by "or" in the branch's condition
RULES == <<
    [keys |-> {"INATEL"},
     filter |-> "Inatel",
     near |-> "Inatel e Arredores"],
    [keys |-> {"ETE"},
     filter |-> "ETE",
     near |-> "ETE e Arredores"],
    [keys |-> {"LOJA MAÇONICA", "LOJA MAÇÔNICA"},
     filter |-> "Loja Maçônica",
     near |-> "Praça e Arredores"],
    [keys |-> {"REAL PALACE"},
     filter |-> "Real Palace",
     near |-> "Praça e Arredores"],
    [keys |-> {"BRASEIRO"},
     filter |-> "Braseiro",
     near |-> "Praça e Arredores"],
    [keys |-> {"BOTECO DO TIO"},
     filter |-> "Boteco do Tio João",
     near |-> "Praça e Arredores"],
    [keys |-> {"ASSOCIAÇÃO"},
     filter |-> "Associação José do Patrocínio",
     near |-> "Praça e Arredores"],
    [keys |-> {"BAR E RESTAURANTE"},
     filter |-> "Bar e Restaurante do Dimas II",
     near |-> "Praça e Arredores"],
    [keys |-> {"ESCOLA S"},
     filter |-> "Escola Sanico Teles",
     near |-> "Praça e Arredores"],
    [keys |-> {"CASA DINAMARCA"},
     filter |-> "Casa Dinamarca",
     near |-> "Inatel e Arredores"],
    [keys |-> {"CASA MFM"},
     filter |-> "Casa MFM",
     near |-> "Inatel e Arredores"],
    [keys |-> {"CASA DO CCCF"},
     filter |-> "Casa do CCCF",
     near |-> "Praça e Arredores"],
    [keys |-> {"PALCO UNDERSTREAM"},
     filter |-> "Palco UNDERSTREAM",
     near |-> "Praça e Arredores"],
    [keys |-> {"INCUBADORA MUNICIPAL"},
     filter |-> "Incubadora Municipal",
     near |-> "Praça e Arredores"],
    [keys |-> {"CASA GOOGLE CLOUD"},
     filter |-> "Casa Google Cloud",
     near |-> "Inatel e Arredores"],
    [keys |-> {"CASA FUTUROS POSSÍVEIS"},
     filter |-> "Casa Futuros Possíveis - Maria Maria Gastrobar",
     near |-> "Praça e Arredores"],
    [keys |-> {"PALCO MULTIEXPERIÊNCIAS"},
     filter |-> "Palco MultiExperiências",
     near |-> "ETE e Arredores"],
    [keys |-> {"CIRCUITO SESC AMANTIKIR"},
     filter |-> "Circuito SESC Amantikir",
     near |-> "Praça e Arredores"],
    [keys |-> {"MIMMA"},
     filter |-> "Mimma's",
     near |-> "Praça e Arredores"],
    [keys |-> {"DIJA GASTRONOMIA"},
     filter |-> "Dija Gastronomia",
     near |-> "Praça e Arredores"],
    [keys |-> {"GRANDPA JOEL", "COFFEE SHOP"},
     filter |-> "Grandpa Joel´s Coffee Shop",
     near |-> "Praça e Arredores"],
    [keys |-> {"SINHÁ MOREIRA", "SINHA MOREIRA"},
     filter |-> "Av. Sinhá Moreira",
     near |-> "ETE e Arredores"],
    [keys |-> {"BE BOLD"},
     filter |-> "Be Bold",
     near |-> "ETE e Arredores"],
    [keys |-> {"MERCADO MUNICIPAL"},
     filter |-> "Mercado Municipal",
     near |-> "ETE e Arredores"],
    [keys |-> {"FEIRA DA MANTIQUEIRA"},
     filter |-> "Feira da Mantiqueira",
     near |-> "Inatel e Arredores"],
    [keys |-> {"A SER ANUNCIADO"},
     filter |-> "A ser anunciado",
     near |-> "ETE e Arredores"]
>>

\* the branches whose condition holds for place_upper
Matching(place_upper) ==
    {i \in 1..Len(RULES) : \E k \in RULES[i].keys : Contains(place_upper, k)}

\* a chain in which a later branch overrides an earlier one
LastMatch(place_upper) ==
    CHOOSE i \in Matching(place_upper) :
        \A j \in Matching(place_upper) : j <= i

\* if/elif: of the branches whose condition holds, the first is taken
FirstMatch(place_upper) ==
    CHOOSE i \in Matching(place_upper) :
        \A j \in Matching(place_upper) : i <= j

\* an else branch that keeps the defaults of lines 190-191
UnmappedAsOther(s) == <<Str("Other"), Str("Other")>>

\* lines 312-316: the else branch keeps the original name and sets
\* near_location to None
Unmapped(s) == <<Str(s), None>>

\* matching on the place as given
PlaceAsGiven(s) == s

\* line 188: place_upper = place.upper()
PlaceUpper(s) == Upper(s)

\* lines 187-318: the pair computed for a place that is not empty
MatchRules(s) ==
    LET place_upper == PlaceUpper(s)
    IN  IF Matching(place_upper) = {} THEN Unmapped(s)
        ELSE LET r == RULES[FirstMatch(place_upper)]
             IN  <<Str(r.filter), Str(r.near)>>

\* places as the API sends them
PlaceSamples ==
    {"", "INATEL Auditório", "Inatel e ETE", "INATEL Casa Dinamarca",
     "Casa Dinamarca", "Gabinete", "Sala Azul"}

\* the arguments of the calls: the samples and their two case foldings
Places ==
    PlaceSamples \cup {Upper(s) : s \in PlaceSamples}
                 \cup {Lower(s) : s \in PlaceSamples}

\* MatchRules for each place of the model, worked out once
Located == [s \in Places |-> MatchRules(s)]

\* a lookup under the upper-cased place
CacheKeyUpper(s) == Upper(s)

\* lines 184, 320: the cache is keyed by the place as given
CacheKey(s) == s

\* lines 179-321: what normalize_and_locate(s) returns when the cache is
\* cache
LocateResult(s, cache) ==
    IF s = "" THEN <<Str("Other"), Str("Other")>>
    ELSE IF CacheKey(s) \in DOMAIN cache THEN cache[CacheKey(s)]
    ELSE Located[s]

\* lines 179-321: the cache after normalize_and_locate(s)
CacheAfter(s, cache) ==
    IF s = "" \/ CacheKey(s) \in DOMAIN cache THEN cache
    ELSE cache @@ (CacheKey(s) :> Located[s])

\* one call normalize_and_locate(s)
NormalizeAndLocate(s) ==
    /\ locateCalls < MaxLocateCalls
    /\ lastPlace' = s
    /\ lastResult' = LocateResult(s, location_cache)
    /\ lastHit' = (s # "" /\ CacheKey(s) \in DOMAIN location_cache)
    /\ location_cache' = CacheAfter(s, location_cache)
    /\ locateCalls' = locateCalls + 1
    /\ UNCHANGED <<IS_CI, holdVars, failedRuns, poolVars, runVars, fetchVars, mainVars, saveVars>>

InitLocate ==
    /\ IS_CI \in BOOLEAN
    /\ runPc = "idle"
    /\ semaphore = NewSemaphore
    /\ coord = [d \in EVENT_DATES |-> "start"]
    /\ task = [d \in EVENT_DATES |-> [p \in Pages |-> "none"]]
    /\ results = [d \in EVENT_DATES |-> [p \in Pages |-> Pending]]
    /\ last_page = [d \in EVENT_DATES |-> 0]
    /\ all_events = [d \in EVENT_DATES |-> <<>>]
    /\ all_results = <<>>
    /\ doneOrder = [d \in EVENT_DATES |-> <<>>]
    /\ calls = [d \in EVENT_DATES |-> [p \in Pages |-> 0]]
    /\ warmups = 0
    /\ warmup = "none"
    /\ successful_dates = 0
    /\ failed_dates = {}
    /\ total_events = 0
    /\ saved = {}
    /\ fpPc = "idle"
    /\ attempt = 0
    /\ delay = 0
    /\ requests = 0
    /\ sleeps = 0
    /\ lastResp = [kind |-> "none"]
    /\ last200 = [kind |-> "none"]
    /\ onlyRetryable = TRUE
    /\ fpResult = Pending
    /\ MainIdle
    /\ LocateIdle
    /\ SaveIdle
    /\ PoolIdle

NextLocate == \E s \in Places : NormalizeAndLocate(s)

SpecLocate == InitLocate /\ [][NextLocate]_vars

(***************************************************************************)
(* The result loop of main, file by file (lines 885-895), with             *)
(* save_events_to_file (lines 573-649) and the interrupt handler of the    *)
(* script (lines 1008-1012).  One run; files of an earlier run may exist.  *)
(***************************************************************************)
\* lines 561-567: process_events adds the two location fields; the records
\* of the model carry no 'place', so '' is located
ProcessEvents(events) ==
    [i \in DOMAIN events |->
        [event |-> events[i],
         filterLocation |-> LocateResult("", <<>>)[1],
         nearLocation |-> LocateResult("", <<>>)[2]]]

\* lines 631-636: output_data
Artifact(d, events, now) ==
    Dict([date |-> d,
          total_events |-> Len(ProcessEvents(events)),
          scraped_at |-> Time(now),
          events |-> ProcessEvents(events)])

\* the file an earlier run wrote for date d, at time 0
OldArtifact(d) == Artifact(d, Records(d, 1, 2), 0)

\* a loop that removes the file of a date without events
ClearFile(files, d) == [files EXCEPT ![d] = Missing]

\* lines 891-895: the else branch does not touch the file of the date
KeepFile(files, d) == files

\* lines 886, 891-895: the date has no events and is noted as failed
SkipDate ==
    /\ runPc = "closed"
    /\ saveIdx <= NumDates
    /\ ~DateSucceeded(all_results[saveIdx])
    /\ failed_dates' = failed_dates \cup {saveIdx}
    /\ event_files' = KeepFile(event_files, saveIdx)
    /\ saveIdx' = saveIdx + 1
    /\ UNCHANGED <<IS_CI, holdVars, failedRuns, poolVars, fetchVars, mainVars, locateVars, runPc, semaphore,
                   coord, task, results, last_page, all_events, all_results,
                   doneOrder, calls, warmups, warmup, successful_dates,
                   total_events, saved, priorFiles>>

\* lines 886-888, 620-639: the date has events; save_events_to_file processes
\* them and opens the file with mode 'w', which empties it
OpenEventsFile ==
    /\ runPc = "closed"
    /\ saveIdx <= NumDates
    /\ DateSucceeded(all_results[saveIdx])
    /\ event_files' = [event_files EXCEPT ![saveIdx] = Torn]
    /\ runPc' = "saving"
    /\ UNCHANGED <<IS_CI, holdVars, failedRuns, poolVars, fetchVars, mainVars, locateVars, semaphore, coord,
                   task, results, last_page, all_events, all_results,
                   doneOrder, calls, warmups, warmup, successful_dates,
                   failed_dates, total_events, saved, priorFiles, saveIdx>>

\* lines 639-649, 889-890: json.dump has written the whole file, the file is
\* closed and the counters are updated
DumpEvents ==
    /\ runPc = "saving"
    /\ event_files' = [event_files EXCEPT ![saveIdx] =
                          Artifact(saveIdx, all_results[saveIdx], runs)]
    /\ saved' = saved \cup {saveIdx}
    /\ total_events' = total_events + Len(all_results[saveIdx])
    /\ successful_dates' = successful_dates + 1
    /\ saveIdx' = saveIdx + 1
    /\ runPc' = "closed"
    /\ UNCHANGED <<IS_CI, holdVars, failedRuns, poolVars, fetchVars, mainVars, locateVars, semaphore, coord,
                   task, results, last_page, all_events, all_results,
                   doneOrder, calls, warmups, warmup, failed_dates,
                   priorFiles>>

\* a loop that is left after its first date
LoopExhaustedEarly == saveIdx > 1

\* line 885: "for date, events in all_events.items()" has no date left
LoopExhausted == saveIdx > NumDates

\* line 885: the loop over all_events.items() is exhausted
LoopDone ==
    /\ runPc = "closed"
    /\ LoopExhausted
    /\ runPc' = "processed"
    /\ UNCHANGED <<IS_CI, holdVars, failedRuns, poolVars, fetchVars, mainVars, locateVars, saveVars, semaphore,
                   coord, task, results, last_page, all_events, all_results,
                   doneOrder, calls, warmups, warmup, successful_dates,
                   failed_dates, total_events, saved>>

\* lines 1008-1012: Ctrl+C while main runs; the handler prints and calls
\* exit(1); what is on disk stays as it is
Interrupt ==
    /\ runPc \in {"start", "fetching", "closed", "saving", "processed",
                  "built", "written"}
    /\ runPc' = "exited"
    /\ exit_code' = 1
    /\ UNCHANGED <<IS_CI, holdVars, failedRuns, poolVars, fetchVars, locateVars, saveVars, semaphore, coord,
                   task, results, last_page, all_events, all_results,
                   doneOrder, calls, warmups, warmup, successful_dates,
                   failed_dates, total_events, saved, summary_file,
                   existing_summary, summary_data, runs, priorFile, lastGood>>

InitSave ==
    /\ IS_CI \in BOOLEAN
    /\ runPc = "start"
    /\ semaphore = NewSemaphore
    /\ coord = [d \in EVENT_DATES |-> "start"]
    /\ task = [d \in EVENT_DATES |-> [p \in Pages |-> "none"]]
    /\ results = [d \in EVENT_DATES |-> [p \in Pages |-> Pending]]
    /\ last_page = [d \in EVENT_DATES |-> 0]
    /\ all_events = [d \in EVENT_DATES |-> <<>>]
    /\ all_results = <<>>
    /\ doneOrder = [d \in EVENT_DATES |-> <<>>]
    /\ calls = [d \in EVENT_DATES |-> [p \in Pages |-> 0]]
    /\ warmups = 0
    /\ warmup = "none"
    /\ successful_dates = 0
    /\ failed_dates = {}
    /\ total_events = 0
    /\ saved = {}
    /\ fpPc = "idle"
    /\ attempt = 0
    /\ delay = 0
    /\ requests = 0
    /\ sleeps = 0
    /\ lastResp = [kind |-> "none"]
    /\ last200 = [kind |-> "none"]
    /\ onlyRetryable = TRUE
    /\ fpResult = Pending
    /\ MainIdle
    /\ LocateIdle
    /\ event_files \in [EVENT_DATES -> {Missing} \cup {OldArtifact(d) : d \in EVENT_DATES}]
    /\ \A d \in EVENT_DATES : event_files[d] \in {Missing, OldArtifact(d)}
    /\ priorFiles = event_files
    /\ saveIdx = 1
    /\ PoolIdle

NextSave ==
    \/ LoadSummary
    \/ \E rs \in [EVENT_DATES -> UNION {OnePageResults(d) : d \in EVENT_DATES}] :
           (\A d \in EVENT_DATES : rs[d] \in OnePageResults(d)) /\ FetchAllDates(rs)
    \/ SkipDate
    \/ OpenEventsFile
    \/ DumpEvents
    \/ LoopDone
    \/ BuildSummary
    \/ WriteSummary
    \/ Finish
    \/ Interrupt

SpecSave == InitSave /\ [][NextSave]_vars

(***************************************************************************)
(* The page fetches of a run with the steps of each fetch_page call        *)
(* (SpecHold): the coordinators of lines 441-534, and between the entry    *)
(* into "async with semaphore" and the return of fetch_page the loop of    *)
(* lines 362-438 of that call.  The run is taken from the point where the  *)
(* date tasks start; a date has one page or two.                           *)
(***************************************************************************)
\* what fetch_page(d, 1) may return here
HoldPage1Results(d) ==
    {None, BodyNoLastPage(d, 1, 2), BodyWithMeta(d, 1, 2, 2)}

\* a fetch_page call that runs whether or not its task is inside the block
BesideSemaphoreBlock(d, p) == TRUE

\* lines 471-473, 504-507: fetch_page is called, and awaited, inside
\* "async with semaphore": the call runs only while its task has the slot
InsideSemaphoreBlock(d, p) == task[d][p] = "inflight"

\* lines 362-373: an iteration of the call begins with the jitter sleep
BeginAttemptOf(d, p) ==
    /\ InsideSemaphoreBlock(d, p)
    /\ pagePc[d][p] \in {"idle", "loop"}
    /\ pagePc' = [pagePc EXCEPT ![d][p] = "jitter"]
    /\ UNCHANGED <<IS_CI, runVars, fetchVars, mainVars, locateVars, saveVars,
                   poolVars, failedRuns, pageAttempt>>

\* lines 376-384: the jitter sleep is over and the request is issued
IssueRequestOf(d, p) ==
    /\ InsideSemaphoreBlock(d, p)
    /\ pagePc[d][p] = "jitter"
    /\ pagePc' = [pagePc EXCEPT ![d][p] = "request"]
    /\ UNCHANGED <<IS_CI, runVars, fetchVars, mainVars, locateVars, saveVars,
                   poolVars, failedRuns, pageAttempt>>

\* lines 386-434: the request ends with resp; the call is about to return
\* the parsed body or None, or starts the sleep before its next attempt
RespondTo(d, p, resp) ==
    /\ InsideSemaphoreBlock(d, p)
    /\ pagePc[d][p] = "request"
    /\ LET o == Outcome(resp, pageAttempt[d][p])
       IN  pagePc' = [pagePc EXCEPT ![d][p] =
               CASE o = "return_json" -> "return_json"
                 [] o = "return_none" -> "return_none"
                 [] o = "propagate" -> "raised"
                 [] OTHER -> "backoff"]
    /\ UNCHANGED <<IS_CI, runVars, fetchVars, mainVars, locateVars, saveVars,
                   poolVars, failedRuns, pageAttempt>>

\* "continue": the backoff sleep is over and the loop takes its next value;
\* a loop that is exhausted returns None (lines 436-438)
WakeUpOf(d, p) ==
    /\ InsideSemaphoreBlock(d, p)
    /\ pagePc[d][p] = "backoff"
    /\ IF pageAttempt[d][p] + 1 < MAX_RETRIES
         THEN /\ pageAttempt' = [pageAttempt EXCEPT ![d][p] = @ + 1]
              /\ pagePc' = [pagePc EXCEPT ![d][p] = "loop"]
         ELSE /\ pagePc' = [pagePc EXCEPT ![d][p] = "return_none"]
              /\ UNCHANGED pageAttempt
    /\ UNCHANGED <<IS_CI, runVars, fetchVars, mainVars, locateVars, saveVars,
                   poolVars, failedRuns>>

\* the value r is what the call for page p of date d is about to return
Returns(d, p, r) ==
    \/ pagePc[d][p] = "return_none" /\ r = None
    \/ pagePc[d][p] = "return_json" /\ r # None

\* lines 471-513: fetch_page(d, 1) returns to its coordinator
FetchedFirstPage(d, r) == Returns(d, 1, r) /\ FirstPageReturn(d, r)

\* lines 505-507: fetch_page(d, p) returns to fetch_with_semaphore
FetchedPage(d, p, r) == Returns(d, p, r) /\ PageReturn(d, p, r)

InitHold ==
    /\ IS_CI \in BOOLEAN
    /\ runPc = "gather"
    /\ semaphore = NewSemaphore
    /\ coord = [d \in EVENT_DATES |-> "start"]
    /\ task = [d \in EVENT_DATES |-> [p \in Pages |-> "none"]]
    /\ results = [d \in EVENT_DATES |-> [p \in Pages |-> Pending]]
    /\ last_page = [d \in EVENT_DATES |-> 0]
    /\ all_events = [d \in EVENT_DATES |-> <<>>]
    /\ all_results = <<>>
    /\ doneOrder = [d \in EVENT_DATES |-> <<>>]
    /\ calls = [d \in EVENT_DATES |-> [p \in Pages |-> 0]]
    /\ warmups = IF IS_CI THEN 1 ELSE 0
    /\ warmup = IF IS_CI THEN "ok" ELSE "none"
    /\ successful_dates = 0
    /\ failed_dates = {}
    /\ total_events = 0
    /\ saved = {}
    /\ fpPc = "idle"
    /\ attempt = 0
    /\ delay = 0
    /\ requests = 0
    /\ sleeps = 0
    /\ lastResp = [kind |-> "none"]
    /\ last200 = [kind |-> "none"]
    /\ onlyRetryable = TRUE
    /\ fpResult = Pending
    /\ MainIdle
    /\ LocateIdle
    /\ SaveIdle
    /\ session = "open"
    /\ raisedBy = NoRaise

NextHold ==
    \/ \E d \in EVENT_DATES : AcquireFirstPage(d)
    \/ \E d \in EVENT_DATES : \E p \in Pages : AcquirePage(d, p)
    \/ \E d \in EVENT_DATES : \E p \in Pages : BeginAttemptOf(d, p)
    \/ \E d \in EVENT_DATES : \E p \in Pages : IssueRequestOf(d, p)
    \/ \E d \in EVENT_DATES : \E p \in Pages :
           \E resp \in Responses : RespondTo(d, p, resp)
    \/ \E d \in EVENT_DATES : \E p \in Pages : WakeUpOf(d, p)
    \/ \E d \in EVENT_DATES : \E r \in HoldPage1Results(d) : FetchedFirstPage(d, r)
    \/ \E d \in EVENT_DATES : \E p \in Pages :
           \E r \in LivePageResults(d, TaskPage(d, p)) : FetchedPage(d, p, r)
    \/ \E d \in EVENT_DATES : Gathered(d)
    \/ CloseSession

SpecHold == InitHold /\ [][NextHold]_vars

(***************************************************************************)
(* Properties of the run (Spec).                                           *)
(***************************************************************************)
Range(f) == {f[i] : i \in DOMAIN f}

\* fetch_page(d, 1) has returned something other than None
FirstPageSucceeded(d) == results[d][1].tag = "dict"

\* C1: in every reachable state the number of page fetches in flight, page 1
\* and later pages of all dates together, is at most MAX_CONCURRENT_REQUESTS.
C1_InFlightBounded == Cardinality(InFlight) <= MAX_CONCURRENT_REQUESTS

\* the limit is met by fetches of two dates while a third fetch waits
C1_Witness ==
    /\ ~IS_CI
    /\ Cardinality(InFlight) = MAX_CONCURRENT_REQUESTS
    /\ \E d1, d2 \in EVENT_DATES :
          /\ d1 # d2
          /\ task[d1][1] = "inflight"
          /\ \E p \in 2..MaxPages : task[d2][p] = "inflight"
          /\ \E q \in 2..MaxPages : task[d2][q] = "waiting"

\* C2: when fetch_page(d, 1) returns None, the date's outcome is the empty
\* list, main lists the date as failed and writes no file for it, and no
\* fetch_page call is ever made for a page >= 2 of that date.
C2_FirstPageAbsent ==
    \A d \in EVENT_DATES :
        results[d][1] = None =>
            /\ coord[d] = "done"
            /\ all_events[d] = <<>>
            /\ \A p \in 2..MaxPages : calls[d][p] = 0 /\ task[d][p] = "none"
            /\ runPc = "processed" => d \in failed_dates /\ d \notin saved

\* the run is over, one date lost page 1 and another fetched later pages
C2_Witness ==
    /\ runPc = "processed"
    /\ \E d1, d2 \in EVENT_DATES :
          /\ results[d1][1] = None
          /\ calls[d1][1] = 1
          /\ calls[d2][2] = 1
          /\ d2 \in saved

\* C3: a date is reported successful exactly when its page-1 fetch succeeded:
\* it is counted in successful_dates and is not in failed_dates, also when
\* its merged record list is empty.
C3_SuccessIffFirstPage ==
    runPc = "processed" =>
        /\ \A d \in EVENT_DATES : FirstPageSucceeded(d) <=> d \notin failed_dates
        /\ successful_dates =
              Cardinality({d \in EVENT_DATES : FirstPageSucceeded(d)})

\* C4: the records of a date's outcome are in ascending page order (and in
\* the page's own order within a page), whatever order the fetches returned in.
C4_PageOrder ==
    \A d \in EVENT_DATES :
        coord[d] = "done" =>
            \A i, j \in DOMAIN all_events[d] :
                i < j =>
                    \/ all_events[d][i][2] < all_events[d][j][2]
                    \/ /\ all_events[d][i][2] = all_events[d][j][2]
                       /\ all_events[d][i][3] < all_events[d][j][3]

\* page 3 returned before page 2 and all three pages brought records
C4_Witness ==
    \E d \in EVENT_DATES :
        /\ coord[d] = "done"
        /\ doneOrder[d] = <<3, 2>>
        /\ Len(all_events[d]) = 6

\* the records of the pages of date d whose fetch returned a body
FetchedRecords(d) ==
    UNION {Range(Get(results[d][p], "data", <<>>)) :
             p \in {q \in Pages : results[d][q].tag = "dict"}}

\* C5: when page 1 of a date succeeded, every page 2..N was fetched and the
\* outcome holds exactly the records of page 1 and of every page 2..N whose
\* fetch returned a body, each once: a page that returned None adds nothing
\* and takes nothing away.
C5_ExactlyFetchedRecords ==
    \A d \in EVENT_DATES :
        coord[d] = "done" /\ FirstPageSucceeded(d) =>
            /\ \A p \in 2..LastPageOf(results[d][1]) :
                  Truthy(results[d][1]) => results[d][p] # Pending
            /\ Range(all_events[d]) = FetchedRecords(d)
            /\ Len(all_events[d]) = Cardinality(FetchedRecords(d))

\* page 2 of 3 returned None; the records of pages 1 and 3 are there
C5_Witness ==
    \E d \in EVENT_DATES :
        /\ coord[d] = "done"
        /\ last_page[d] = 3
        /\ results[d][2] = None
        /\ all_events[d] = Records(d, 1, 2) \o Records(d, 3, 2)

(***************************************************************************)
(* Properties of one fetch_page call (SpecFetch).                          *)
(***************************************************************************)
Is403(resp) == resp.kind = "status" /\ resp.status = 403

\* C6: a fetch_page call issues at most MAX_RETRIES requests and always
\* returns; when every attempt ended in a retryable failure it returns None
\* after exactly MAX_RETRIES requests; once it has returned, no request follows.
C6_BoundedRetries ==
    /\ [](requests <= MAX_RETRIES)
    /\ [](fpPc = "done" /\ onlyRetryable =>
              fpResult = None /\ requests = MAX_RETRIES)
    /\ [][fpPc = "done" => fpPc' = "done" /\ requests' = requests]_vars
    /\ <>(fpPc = "done")

\* every attempt failed with a retryable failure and the call gave up
C6_Witness ==
    /\ fpPc = "done"
    /\ onlyRetryable
    /\ requests = MAX_RETRIES
    /\ sleeps = MAX_RETRIES - 1

\* C7: fetch_page never lets an error out: whatever the failure class of an
\* attempt, the call does not end by raising, and what it returns is None or
\* a parsed body.
C7_NeverPropagates ==
    /\ fpPc # "raised"
    /\ fpPc = "done" => fpResult = None \/ fpResult \in JsonBodies

\* every attempt was used up and the last one got a 200 with a malformed body
C7_Witness ==
    /\ fpPc = "done"
    /\ fpResult = None
    /\ attempt = MAX_RETRIES - 1
    /\ lastResp = [kind |-> "status", status |-> 200, body |-> "malformed"]

\* C8 as stated: as soon as an attempt receives HTTP 200, fetch_page returns
\* that response's parsed body, with no further request and no further sleep.
C8_Return200 ==
    last200.kind = "seen" =>
        /\ fpPc = "done"
        /\ last200.resp.body = "json"
        /\ fpResult = last200.resp.json
        /\ requests = last200.requests
        /\ sleeps = last200.sleeps

\* C8 as amended: as soon as an attempt receives HTTP 200 and response.json()
\* parses its body, fetch_page returns the parsed body, with no further
\* request and no further sleep, whatever failures earlier attempts had.
C8_ReturnParsed200 ==
    last200.kind = "seen" /\ last200.resp.body = "json" =>
        /\ fpPc = "done"
        /\ fpResult = last200.resp.json
        /\ requests = last200.requests
        /\ sleeps = last200.sleeps

\* a parsed 200 on the third attempt, after two failed ones
C8_Witness ==
    /\ last200.kind = "seen"
    /\ last200.resp.body = "json"
    /\ fpPc = "done"
    /\ attempt = 2
    /\ sleeps = 2

\* C9: a 403 on an attempt that is not the last starts a backoff sleep of
\* 30 s to 120 s in CI and of 5 s to 30 s otherwise, and the sleep is followed
\* by the next attempt (its jitter sleep, then its request); a 403 on the last
\* attempt returns None.
C9_Backoff403 ==
    /\ [][fpPc = "request" /\ fpPc' # "request" /\ Is403(lastResp') =>
            IF attempt < MAX_RETRIES - 1
              THEN /\ fpPc' = "backoff"
                   /\ IF IS_CI
                        THEN 30000 <= delay' /\ delay' <= 120000
                        ELSE 5000 <= delay' /\ delay' <= 30000
              ELSE fpPc' = "done" /\ fpResult' = None]_vars
    /\ [][fpPc = "backoff" /\ Is403(lastResp) =>
            fpPc' = "loop" /\ attempt' = attempt + 1 /\ requests' = requests]_vars
    /\ [][fpPc = "loop" => fpPc' = "jitter" /\ attempt' = attempt]_vars
    /\ [][fpPc = "jitter" =>
            fpPc' = "request" /\ requests' = requests + 1]_vars

\* the request that follows the backoff of a 403 on the fourth attempt
C9_Witness ==
    /\ ~IS_CI
    /\ fpPc = "request"
    /\ attempt = 4
    /\ Is403(lastResp)
    /\ delay \in JitterDelays(4)

\* C10 as stated: with attempts numbered from 1, the delay slept after a 403
\* on attempt k is min(30 + 30*k + j, 120) s with j in [0, 30] in CI and
\* max(5, min(RETRY_DELAY * 2^k + j, 30)) s with j in [0, 5] otherwise.
C10_DelayOneBased ==
    fpPc = "backoff" /\ Is403(lastResp) =>
        LET k == attempt + 1
        IN  IF IS_CI
              THEN \E j \in 0..30000 :
                      delay = Min(30000 + (30000 * k) + j, 120000)
              ELSE \E j \in 0..5000 :
                      delay = Max(5000, Min((RETRY_DELAY * Pow2(k)) + j, 30000))

\* C10 as amended: with attempts numbered from 0 (the loop variable), the
\* delay slept after a 403 on attempt k is min(30 + 30*k + j, 120) s with j
\* in [0, 30] in CI and max(5, min(RETRY_DELAY * 2^k + j, 30)) s with j in
\* [0, 5] otherwise.
C10_DelayZeroBased ==
    fpPc = "backoff" /\ Is403(lastResp) =>
        LET k == attempt
        IN  IF IS_CI
              THEN \E j \in 0..30000 :
                      delay = Min(30000 + (30000 * k) + j, 120000)
              ELSE \E j \in 0..5000 :
                      delay = Max(5000, Min((RETRY_DELAY * Pow2(k)) + j, 30000))

\* the second attempt in CI got a 403 and sleeps 90 s
C10_Witness ==
    /\ IS_CI
    /\ fpPc = "backoff"
    /\ Is403(lastResp)
    /\ attempt = 1
    /\ delay = 90000

\* a status that is neither 200 nor 403
IsOtherStatus(resp) == resp.kind = "status" /\ resp.status \notin {200, 403}

IsException(resp) == Raised(resp) # "none"

\* C12: a timeout or any other exception on an attempt that is not the last
\* starts a sleep of exactly RETRY_DELAY outside CI and 2 * RETRY_DELAY in CI,
\* the same for both classes, followed by the next attempt; on the last
\* attempt fetch_page returns None; the exception never leaves fetch_page.
C12_FlatDelay ==
    /\ [][fpPc = "request" /\ fpPc' # "request" /\ IsException(lastResp') =>
            IF attempt < MAX_RETRIES - 1
              THEN /\ fpPc' = "backoff"
                   /\ delay' = IF IS_CI THEN 2 * RETRY_DELAY ELSE RETRY_DELAY
              ELSE fpPc' = "done" /\ fpResult' = None]_vars
    /\ [][fpPc = "backoff" /\ IsException(lastResp) =>
            fpPc' = "loop" /\ attempt' = attempt + 1 /\ requests' = requests]_vars
    /\ [](fpPc # "raised")

\* in CI the first attempt timed out and the call sleeps 40 s
C12_Witness ==
    /\ IS_CI
    /\ fpPc = "backoff"
    /\ attempt = 0
    /\ lastResp = [kind |-> "timeout"]
    /\ delay = 40000

(***************************************************************************)
(* Properties of main across runs (SpecMain).                              *)
(***************************************************************************)
\* the run's summary is on disk
SummaryWritten == runPc \in {"written", "exited"}

\* every page-1 fetch of the run returned None
EveryDateFailed == \A d \in EVENT_DATES : ~FirstPageSucceeded(d)

\* a field of summary.json as the run found it; a summary that is missing or
\* lacks the field counts as holding the default
PriorField(key, default) ==
    IF priorFile = Missing THEN default ELSE Get(priorFile, key, default)

\* C13: when every date of a run failed, the summary the run wrote has the
\* total, the completion time, the successful-date count and the file list
\* of the summary the run found, names every requested date as failed,
\* carries the time of this run as last failed attempt, and its failure
\* counter is the one found plus 1.
C13_FailureSummary ==
    SummaryWritten /\ EveryDateFailed =>
        /\ summary_file.items.total_events = PriorField("total_events", 0)
        /\ summary_file.items.scraping_completed =
              PriorField("scraping_completed", Never)
        /\ summary_file.items.successful_dates =
              PriorField("successful_dates", 0)
        /\ summary_file.items.files_created = PriorField("files_created", <<>>)
        /\ summary_file.items.failed_dates = EVENT_DATES
        /\ summary_file.items.last_failed_attempt = Time(runs)
        /\ summary_file.items.consecutive_failures =
              PriorField("consecutive_failures", 0) + 1

\* the third run fails on every date after a run with records and a failed one
C13_Witness ==
    /\ SummaryWritten /\ EveryDateFailed
    /\ runs = 3
    /\ priorFile # Missing
    /\ summary_file.items.total_events > 0
    /\ summary_file.items.files_created # <<>>
    /\ summary_file.items.consecutive_failures = 2

C15_TotalOfThisRun ==
    SummaryWritten /\ ~EveryDateFailed =>
        summary_file.items.total_events =
            SumLen(all_events, {d \in EVENT_DATES : FirstPageSucceeded(d)})

\* C16: a process that has ended has written its summary; its exit status is
\* not 0 when every date failed and 0 otherwise.
C16_ExitStatus ==
    runPc = "exited" =>
        /\ summary_file = summary_data
        /\ EveryDateFailed => exit_code # 0
        /\ ~EveryDateFailed => exit_code = 0

C18_SlotsReleased ==
    /\ semaphore + Cardinality(InFlight) = MAX_CONCURRENT_REQUESTS
    /\ runPc \in {"closed", "processed"} => semaphore = MAX_CONCURRENT_REQUESTS

\* the run is over after a page-1 fetch and a page-2 fetch returned None and
\* a page-3 fetch returned a body
C18_Witness ==
    /\ runPc = "closed"
    /\ semaphore = MAX_CONCURRENT_REQUESTS
    /\ \E d1, d2 \in EVENT_DATES :
          /\ results[d1][1] = None
          /\ results[d2][2] = None
          /\ results[d2][3].tag = "dict"

\* C19: no (date, page) pair is fetched by more than one fetch_page call;
\* when a date's coordinator has finished after a page 1 that gave a body, the
\* pages fetched for it are exactly 1..last_page; and the body that task p
\* brought back is the body of page p of its date.
C19_EachPageOnce ==
    /\ \A d \in EVENT_DATES : \A p \in Pages : calls[d][p] <= 1
    /\ \A d \in EVENT_DATES :
          coord[d] = "done" /\ FirstPageSucceeded(d) =>
              {p \in Pages : calls[d][p] = 1} = 1..LastPageOf(results[d][1])
    /\ \A d \in EVENT_DATES : \A p \in Pages :
          results[d][p].tag = "dict" =>
              \A x \in Range(Get(results[d][p], "data", <<>>)) :
                  x[1] = d /\ x[2] = p

\* a date of three pages is done: one call for each page, each with records
C19_Witness ==
    \E d \in EVENT_DATES :
        /\ coord[d] = "done"
        /\ last_page[d] = 3
        /\ \A p \in 1..3 : calls[d][p] = 1
        /\ \A p \in 2..3 : results[d][p] = BodyNoLastPage(d, p, 2)

\* C20: in CI one warm-up request is made and none locally; while the
\* warm-up has not ended no page fetch has started; the warm-up, however it
\* ends, lets fetch_all_dates go on to the date tasks and leaves the limiter,
\* the coordinators and their pages as they were at the start (a run that is
\* cancelled while the warm-up awaits has no warm-up outcome).
C20_WarmUpFirst ==
    /\ [](warmups = IF IS_CI /\ runPc # "warmup" THEN 1 ELSE 0)
    /\ [](runPc = "warmup" =>
             \A d \in EVENT_DATES : \A p \in Pages :
                 calls[d][p] = 0 /\ task[d][p] = "none")
    /\ [](runPc # "raised")
    /\ [][(runPc = "warmup" /\ runPc' # "aborted") =>
             /\ runPc' = "gather"
             /\ warmup' \in WarmUpOutcomes
             /\ UNCHANGED <<semaphore, coord, task, results, last_page,
                            all_events, all_results, doneOrder, calls>>]_vars

\* in CI the warm-up request failed, and the run went on to fetch the three
\* pages of a date
C20_Witness ==
    /\ IS_CI
    /\ warmup = "failed"
    /\ warmups = 1
    /\ runPc = "closed"
    /\ \E d \in EVENT_DATES : last_page[d] = 3 /\ Len(all_results[d]) = 6

(***************************************************************************)
(* Properties of the environment profile.                                  *)
(***************************************************************************)
\* C21: the configuration is decided by IS_CI alone: in CI 1 concurrent
\* request, 20 s retry delay, 3 retries, 60 s timeout and 1 connection per
\* host; otherwise 2, 5 s, 5, 30 s and 10.  It stays the same in every step of
\* a run, the limiter has that many slots, and the fetches in flight never
\* need more connections than the connector allows for the host.
C21_Profile ==
    /\ [](Profile =
             IF IS_CI
               THEN [MAX_CONCURRENT_REQUESTS |-> 1, RETRY_DELAY |-> 20000,
                     MAX_RETRIES |-> 3, REQUEST_TIMEOUT |-> 60000,
                     limit_per_host |-> 1]
               ELSE [MAX_CONCURRENT_REQUESTS |-> 2, RETRY_DELAY |-> 5000,
                     MAX_RETRIES |-> 5, REQUEST_TIMEOUT |-> 30000,
                     limit_per_host |-> 10])
    /\ [][IS_CI' = IS_CI /\ Profile' = Profile]_vars
    /\ [](semaphore <= Profile.MAX_CONCURRENT_REQUESTS)
    /\ [](Cardinality(InFlight) <= Profile.limit_per_host)

\* in CI the single slot is taken by a page-2 fetch while page 3 waits
C21_Witness ==
    /\ IS_CI
    /\ semaphore = 0
    /\ \E d \in EVENT_DATES :
          task[d][2] = "inflight" /\ task[d][3] = "waiting"

(***************************************************************************)
(* Properties of normalize_and_locate (SpecLocate).                        *)
(***************************************************************************)
\* a place, its upper-cased form and its lower-cased form
CaseFoldings == [s \in Places |-> {s, Upper(s), Lower(s)}]

\* the places whose upper-cased form holds a substring of some rule
Mapped == {s \in Places : Matching(Upper(s)) # {}}

C23_TotalWithStrings ==
    locateCalls > 0 =>
        /\ lastResult[1].tag = "str" /\ lastResult[2].tag = "str"
        /\ lastPlace = "" => lastResult = <<Str("Other"), Str("Other")>>
        /\ lastPlace \notin Mapped \cup {""} => lastResult[1] = Str(lastPlace)

\* the branches whose condition holds, for each place of the model
MatchingOf == [s \in Places |-> Matching(Upper(s))]

\* C24: a call for a place that matches some rule returns the pair of the
\* earliest branch of the chain whose substring occurs in the upper-cased
\* place, also when later branches match; "Inatel e ETE", "INATEL Casa
\* Dinamarca" and "INATEL Auditório" give ("Inatel", "Inatel e Arredores").
C24_FirstRuleWins ==
    locateCalls > 0 =>
        /\ lastPlace \in Mapped =>
              \E i \in MatchingOf[lastPlace] :
                  /\ \A j \in 1..(i - 1) : j \notin MatchingOf[lastPlace]
                  /\ lastResult = <<Str(RULES[i].filter), Str(RULES[i].near)>>
        /\ lastPlace \in {"Inatel e ETE", "INATEL Casa Dinamarca",
                          "INATEL Auditório"} =>
              lastResult = <<Str("Inatel"), Str("Inatel e Arredores")>>

\* "INATEL Casa Dinamarca" matches the first and the tenth branch and is
\* located at Inatel, while "Casa Dinamarca" alone is cached with its own pair
C24_Witness ==
    /\ lastPlace = "INATEL Casa Dinamarca"
    /\ MatchingOf[lastPlace] = {1, 10}
    /\ lastResult = <<Str("Inatel"), Str("Inatel e Arredores")>>
    /\ "Casa Dinamarca" \in DOMAIN location_cache
    /\ location_cache["Casa Dinamarca"] =
          <<Str("Casa Dinamarca"), Str("Inatel e Arredores")>>

\* C29: every entry of location_cache maps its key to the pair the rules
\* give for that key, so a call returns the pair of the rules for its place
\* whether it is answered from the cache or not and whatever was located
\* before; a call adds its place, exactly as given, as the only new key.
C29_CacheIsMemo ==
    /\ [](\A k \in DOMAIN location_cache : location_cache[k] = Located[k])
    /\ [](locateCalls > 0 =>
             lastResult = IF lastPlace = "" THEN <<Str("Other"), Str("Other")>>
                          ELSE Located[lastPlace])
    /\ [][DOMAIN location_cache' =
             DOMAIN location_cache \cup ({lastPlace'} \ {""})]_vars

\* "sala azul" is answered from the cache while "Sala Azul" and "SALA AZUL",
\* if located at all, have entries of their own
C29_Witness ==
    /\ lastHit
    /\ lastPlace = "sala azul"
    /\ DOMAIN location_cache = {"sala azul", "Sala Azul"}
    /\ location_cache["sala azul"] # location_cache["Sala Azul"]

(***************************************************************************)
(* More properties of the coordinator (Spec).                              *)
(***************************************************************************)
\* fetch_page(d, 1) returned a body whose meta object has no last_page
NoPageCount(d) ==
    /\ Truthy(results[d][1])
    /\ "last_page" \notin DOMAIN Get(results[d][1], "meta", EmptyDict).items

\* C28: once page 1 of a date has returned a body whose meta object has no
\* last_page, the coordinator is done, no fetch of a page >= 2 of that date
\* is ever started, and the date's events are the records of page 1.
C28_OnePageByDefault ==
    \A d \in EVENT_DATES :
        NoPageCount(d) =>
            /\ coord[d] = "done"
            /\ last_page[d] = 1
            /\ \A p \in 2..MaxPages : calls[d][p] = 0 /\ task[d][p] = "none"
            /\ all_events[d] = Get(results[d][1], "data", <<>>)

\* the run is over; a date without page count kept its two records while
\* another date had three pages fetched
C28_Witness ==
    /\ runPc = "closed"
    /\ \E d1, d2 \in EVENT_DATES :
          /\ NoPageCount(d1)
          /\ all_results[d1] = Records(d1, 1, 2)
          /\ last_page[d2] = 3
          /\ calls[d2][3] = 1

(***************************************************************************)
(* More properties of one fetch_page call (SpecFetch).                     *)
(***************************************************************************)
\* C30: every attempt starts with its jitter sleep, and the request of the
\* attempt is issued only when that sleep is over, one request for one
\* sleep; in CI the sleep lasts 5-12 s on the first attempt and 15-32 s, more
\* than the 5 s a first attempt may wait, on a retry; locally it lasts
\* 0.5-1.5 s on every attempt.
C30_JitterFirst ==
    /\ [][fpPc = "loop" /\ fpPc' # "loop" =>
             fpPc' = "jitter" /\ requests' = requests]_vars
    /\ [][requests' # requests =>
             /\ fpPc = "jitter" /\ fpPc' = "request"
             /\ requests = attempt
             /\ requests' = requests + 1]_vars
    /\ [](fpPc = "jitter" =>
             IF IS_CI
               THEN IF attempt > 0
                      THEN 15000 <= delay /\ delay <= 32000 /\ delay > 5000
                      ELSE 5000 <= delay /\ delay <= 12000
               ELSE 500 <= delay /\ delay <= 1500)

\* in CI the third attempt sleeps the longest jitter, 32 s, before its request
C30_Witness ==
    /\ IS_CI
    /\ fpPc = "jitter"
    /\ attempt = 2
    /\ requests = 2
    /\ delay = 32000
\* C25: a date that produced no records in this run keeps the file it had
\* before the run; a file differs from its earlier content only for a date
\* that produced records in this run; a run in which every date failed leaves
\* every per-date file as it was.
C25_FailedDateKeepsFile ==
    /\ \A d \in EVENT_DATES :
        /\ (d \in DOMAIN all_results /\ ~DateSucceeded(all_results[d]))
               => event_files[d] = priorFiles[d]
        /\ event_files[d] # priorFiles[d]
               => (d \in DOMAIN all_results /\ DateSucceeded(all_results[d]))
        /\ d \in saved => DateSucceeded(all_results[d])
    /\ (/\ DOMAIN all_results = EVENT_DATES
        /\ \A d \in EVENT_DATES : ~DateSucceeded(all_results[d]))
           => (event_files = priorFiles /\ saved = {})

\* the run ended normally; date 1 failed and its earlier file is intact,
\* date 2 was written anew
C25_Witness ==
    /\ runPc = "exited"
    /\ exit_code = 0
    /\ results[1][1] = None
    /\ 1 \in failed_dates
    /\ priorFiles[1] = OldArtifact(1)
    /\ event_files[1] = OldArtifact(1)
    /\ 2 \in saved
    /\ priorFiles[2] = OldArtifact(2)
    /\ event_files[2] = Artifact(2, all_results[2], runs)
    /\ event_files[2] # priorFiles[2]

\* C26: once the run has ended, by Ctrl+C or normally, every per-date file
\* is whole: it is the file the run found or the new artifact of the run.
C26_FilesWhole ==
    runPc = "exited" =>
        \A d \in EVENT_DATES :
            \/ event_files[d] = priorFiles[d]
            \/ /\ d \in DOMAIN all_results
               /\ event_files[d] = Artifact(d, all_results[d], runs)

(***************************************************************************)
(* Properties of the session and the limiter of a run (Spec).              *)
(***************************************************************************)
\* C27: one session and one limiter serve the whole run: while the block of
\* fetch_all_dates runs the session is open, every fetch in flight of every
\* date holds a slot of the one limiter and uses the open session; once the
\* block is left, by returning or because the warm-up or a date task raised,
\* the session is closed and stays closed, and no slot is held.
C27_PoolReleased ==
    /\ runPc \in {"warmup", "gather"} <=> session = "open"
    /\ runPc \in {"closed", "processed", "aborted"} <=> session = "closed"
    /\ semaphore + Cardinality(InFlight) = MAX_CONCURRENT_REQUESTS
    /\ InFlight # {} => session = "open"
    /\ raisedBy # NoRaise <=> runPc = "aborted"
    /\ runPc = "aborted" => semaphore = MAX_CONCURRENT_REQUESTS

\* in CI the warm-up went through, then a date task raised while it was at
\* work: the session is closed
C27_Witness ==
    /\ IS_CI
    /\ warmup = "ok"
    /\ runPc = "aborted"
    /\ raisedBy = [kind |-> "date", date |-> 2]
    /\ session = "closed"

(***************************************************************************)
(* Properties of the runs that share summary.json, continued (SpecMain).   *)
(***************************************************************************)
\* C32: over the runs that share summary.json, the consecutive_failures a
\* run writes when every one of its dates failed is the number of such runs
\* since the latest run with a successful date (a date whose page-1 fetch
\* succeeded): after a run with a successful date the next failed run
\* writes 1.
C32_FailuresSinceSuccess ==
    SummaryWritten /\ EveryDateFailed =>
        summary_file.items.consecutive_failures = failedRuns

\* C34: the summary written by a run with a successful date (a date whose
\* page-1 fetch succeeded) has successful_dates plus the number of
\* failed_dates equal to the number of requested dates, names in
\* files_created exactly the dates that are not in failed_dates, and has
\* total_events greater than zero.
C34_SuccessSummaryCounts ==
    SummaryWritten /\ ~EveryDateFailed =>
        /\ summary_file.items.successful_dates
               + Cardinality(summary_file.items.failed_dates) = NumDates
        /\ summary_file.items.files_created =
               FilesCreated(summary_file.items.failed_dates)
        /\ summary_file.items.total_events > 0

(***************************************************************************)
(* Order of the writes of one run (SpecSave).                              *)
(***************************************************************************)
\* C35: within a run a per-date file is touched only when fetch_all_dates
\* has returned, with a result for every date and the session closed, and
\* before the summary of the run is written; summary.json is written only
\* when every date that gave records has its whole new file, and no
\* per-date file is touched in or after that step.
C35_WriteOrder ==
    /\ [][event_files' # event_files =>
             /\ session = "closed"
             /\ DOMAIN all_results = EVENT_DATES
             /\ \A d \in EVENT_DATES : results[d][1] # Pending
             /\ summary_file = priorFile
             /\ summary_file' = summary_file]_vars
    /\ [][summary_file' # summary_file =>
             /\ \A d \in EVENT_DATES :
                    DateSucceeded(all_results[d]) =>
                        event_files[d] = Artifact(d, all_results[d], runs)
             /\ saved = {d \in EVENT_DATES : DateSucceeded(all_results[d])}
             /\ event_files' = event_files]_vars
    /\ [](summary_file # Missing => LoopExhausted /\ session = "closed")

\* both dates gave records, both files were written anew, then the summary
C35_Witness ==
    /\ runPc = "written"
    /\ session = "closed"
    /\ \A d \in EVENT_DATES :
           /\ priorFiles[d] = OldArtifact(d)
           /\ event_files[d] = Artifact(d, all_results[d], runs)
           /\ event_files[d] # priorFiles[d]
    /\ summary_file # Missing
    /\ summary_file.items.files_created = FilesCreated({})

(***************************************************************************)
(* Progress of the run under a fair limiter (SpecLive).                    *)
(***************************************************************************)
\* C31: no task waits for a slot while it holds one: while page 1 of a date
\* is in flight no task for a later page of that date exists, and a date has
\* tasks waiting only when its page-1 fetch has given its slot back.  With 1
\* slot or 2, and fetches that end, the run comes to its end, and when it
\* ends by returning every task that was scheduled has had a slot and made
\* its one fetch: none is left waiting.
C31_NoHoldAndWait ==
    /\ [](\A d \in EVENT_DATES :
             task[d][1] = "inflight" =>
                 \A p \in Pages \ {1} : task[d][p] = "none")
    /\ [](\A d \in EVENT_DATES :
             (\E p \in Pages : task[d][p] = "waiting") =>
                 task[d][1] = "done" /\ coord[d] = "gather")
    /\ [](runPc = "processed" =>
             \A d \in EVENT_DATES :
                 /\ task[d][1] = "done"
                 /\ \A p \in Pages \ {1} :
                        /\ task[d][p] = (IF p <= last_page[d] THEN "done" ELSE "none")
                        /\ calls[d][p] = (IF p <= last_page[d] THEN 1 ELSE 0))
    /\ <>(runPc \in {"processed", "aborted"})

\* in CI (one slot) page 2 of date 1 is in flight, its page 3 waits for the
\* slot and so does the task of date 2 for its page 1
C31_Witness ==
    /\ IS_CI
    /\ MAX_CONCURRENT_REQUESTS = 1
    /\ semaphore = 0
    /\ task[1][2] = "inflight"
    /\ task[1][3] = "waiting"
    /\ coord[2] = "start"

(***************************************************************************)
(* Properties of the slot of a page fetch (SpecHold).                      *)
(***************************************************************************)
\* the fetch_page calls that are asleep before a retry
InBackoff == {dp \in EVENT_DATES \X Pages : pagePc[dp[1]][dp[2]] = "backoff"}

\* some call issues its request in this step
RequestIssued ==
    \E d \in EVENT_DATES : \E p \in Pages :
        pagePc[d][p] # "request" /\ pagePc'[d][p] = "request"

\* C33: a fetch_page call is under way (in its jitter sleep, in its request,
\* in a backoff sleep, about to return) only while its task holds a slot;
\* the slot is given back only by a call that returns, at its return; the
\* held slots and the free ones add up to MAX_CONCURRENT_REQUESTS; and
\* while MAX_CONCURRENT_REQUESTS calls are in a backoff sleep no slot is
\* free, no other call is under way and no request is issued.
C33_SlotHeldThroughSleeps ==
    /\ [](\A d \in EVENT_DATES : \A p \in Pages :
             pagePc[d][p] # "idle" => task[d][p] = "inflight")
    /\ [](semaphore + Cardinality(InFlight) = MAX_CONCURRENT_REQUESTS)
    /\ [](Cardinality(InBackoff) = MAX_CONCURRENT_REQUESTS =>
             /\ semaphore = 0
             /\ \A d \in EVENT_DATES : \A p \in Pages :
                    <<d, p>> \notin InBackoff => pagePc[d][p] = "idle")
    /\ [][Cardinality(InBackoff) = MAX_CONCURRENT_REQUESTS => ~RequestIssued]_vars
    /\ [][\A d \in EVENT_DATES : \A p \in Pages :
              (task[d][p] = "inflight" /\ task'[d][p] # "inflight") =>
                  /\ pagePc[d][p] \in {"return_json", "return_none"}
                  /\ semaphore' = semaphore + 1]_vars
    /\ [][semaphore' > semaphore =>
              \E d \in EVENT_DATES : \E p \in Pages :
                  /\ pagePc[d][p] \in {"return_json", "return_none"}
                  /\ task[d][p] = "inflight" /\ task'[d][p] = "done"]_vars

\* in CI (one slot) the call for page 2 of date 1 is asleep before its last
\* attempt, after two requests that failed, while the task of date 2 has not
\* had the slot for its page 1
C33_Witness ==
    /\ IS_CI
    /\ InBackoff = {<<1, 2>>}
    /\ pageAttempt[1][2] = MAX_RETRIES - 2
    /\ coord[2] = "start"
    /\ semaphore = 0

====
